---- MODULE Spec2Model ----
(***************************************************************************)
(* A model of scripts/m4brew.sh: the batch runner that walks an            *)
(* Author/Book tree and converts, renames or cleans up, one run at a time  *)
(* under an advisory lock, with a cancel trap.                             *)
(*                                                                         *)
(* A script process is a slot p; its position in the script is pc[p].      *)
(* bash runs a trap handler only between commands, so a signal that        *)
(* arrives while a foreground command runs is pending (sig[p]) until the   *)
(* command returns; every ordinary step is therefore guarded by ~sig[p].   *)
(* The external tools are opaque: their exit status and the temp file      *)
(* they leave are nondeterministic; they do not touch the source files.    *)
(***************************************************************************)
EXTENDS Integers, Sequences, FiniteSets, TLC

\* ---------------------------------------------------------------- bounds
NumProcs == 2      \* script processes that may be alive at once
MaxRuns == 2       \* batch runs started in one behaviour
NumBooks == 2      \* book folders under ordinary authors
MaxFiles == 2      \* source files of one type in a book folder
MaxJobs == 2       \* jobs the supervisor accepts in one behaviour

\* ------------------------------------------------------ program constants
MIN_BYTES == 5 * 1024 * 1024

Procs == 1..NumProcs
Books == 0..NumBooks
Modes == {"convert", "correct", "cleanup"}
FileIds == 1..MaxFiles

\* The book folder that lies under the author folder "#recycle".
IsRecycle(b) == b = 0

NoFile == [size |-> -1, by |-> -1, rc |-> -1]
\* A file that was in the tree before any run of the behaviour.
OldFile(s) == [size |-> s, by |-> 0, rc |-> 0]

Summary(success, created, skipped, failed, renamed, deleted, reason) ==
    [success |-> success, created |-> created, skipped |-> skipped,
     failed |-> failed, renamed |-> renamed, deleted |-> deleted,
     reason |-> reason]

ZeroCnt ==
    [created |-> 0, skipped |-> 0, failed |-> 0, renamed |-> 0, deleted |-> 0,
     already_ok |-> 0, skipped_none |-> 0, skipped_multi |-> 0]

\* One book folder: top-level sources, the .m4b files by name, the temp
\* file, and the _backup_files directory with the files in it.
\*   out   = "<Book>.m4b"            named = "<Book> - <Author>.m4b"
\*   other = any other *.m4b         tmp   = ".tmp_<book>.m4b"
\* hid says that the name of the folder itself begins with "tmp_" or
\* ".tmp_", so that out and named have names of the temp patterns too.
\* A backup entry is <<type, id, tag>>: tag "orig" for a file moved there
\* from the top level, "old" for a file that was already in the directory.
Dir(mp3, m4a, out, named, other, tmp, bkdir, bk) ==
    [mp3 |-> mp3, m4a |-> m4a, out |-> out, named |-> named, other |-> other,
     tmp |-> tmp, bkdir |-> bkdir, bk |-> bk, hid |-> FALSE]

\* The same folder under a name that begins with "tmp_".
TmpNamed(d) == [d EXCEPT !.hid = TRUE]

EmptyDir == Dir({}, {}, NoFile, NoFile, NoFile, NoFile, FALSE, {})

Big == OldFile(MIN_BYTES + 1)

BookShapes ==
    { Dir(FileIds, {}, NoFile, NoFile, NoFile, NoFile, FALSE, {}),
      Dir({}, {1}, NoFile, NoFile, NoFile, NoFile, FALSE, {}),
      Dir({}, FileIds, NoFile, NoFile, NoFile, NoFile, FALSE, {}),
      Dir({1}, {1}, NoFile, NoFile, NoFile, NoFile, FALSE, {}),
      EmptyDir,
      Dir({1}, {}, Big, NoFile, NoFile, NoFile, FALSE, {}),
      Dir({}, {}, Big, NoFile, Big, NoFile, FALSE, {}),
      Dir(FileIds, {}, NoFile, NoFile, NoFile, Big, FALSE, {}),
      Dir({}, {}, NoFile, Big, NoFile, NoFile, TRUE, {<<"mp3", 1, "old">>}),
      Dir({1}, {}, NoFile, NoFile, NoFile, NoFile, TRUE, {<<"mp3", 1, "old">>}) }

\* The shapes of the further book folders.
MoreShapes ==
    { Dir(FileIds, {}, NoFile, NoFile, NoFile, NoFile, FALSE, {}),
      Dir({}, {1}, NoFile, NoFile, NoFile, NoFile, FALSE, {}),
      Dir({1}, {}, Big, NoFile, NoFile, NoFile, FALSE, {}),
      TmpNamed(Dir({1}, {}, Big, NoFile, NoFile, NoFile, FALSE, {})),
      TmpNamed(Dir({1}, {1}, NoFile, NoFile, NoFile, NoFile, FALSE, {})) }

RecycleShapes ==
    { Dir({1}, {}, NoFile, NoFile, NoFile, NoFile, TRUE, {<<"mp3", 1, "old">>}) }

ShapesOf(b) ==
    IF IsRecycle(b) THEN RecycleShapes
    ELSE IF b = 1 THEN BookShapes
    ELSE MoreShapes

NoTree == [b \in Books |-> EmptyDir]

Trees ==
    {t \in [Books -> BookShapes \cup MoreShapes \cup RecycleShapes] :
        \A b \in Books : t[b] \in ShapesOf(b)}

VARIABLES
    rootExists,   \* whether ROOT is a directory
    fs,           \* fs[b]: the book folder b
    fs0,          \* the tree at the start of the behaviour
    lock,         \* the process holding the flock on /config/m4brew.lock, or 0
    nruns,        \* runs started so far
    pc, run, runid, trap, sig, idx, cnt, rc, branch, todo, out, exitCode,
    pre,          \* pre[p]: the tree when run p started
    res,          \* res[p][b]: what run p did with book b
    purged,       \* history: the <<b, type, id>> of the original source files
                  \* that were in a _backup_files a real cleanup run removed
    spawned,      \* spawned[p]: the kinds of helper container the latest run
                  \* of slot p has started
    detected,     \* detected[p]: the shell variable of that name, 0 when unset
    chan,         \* one call of detect_channels and resolve_channels: its
                  \* inputs, its position and its results
    job,          \* the Job singleton, as /api/job publishes it
    proc,         \* the batch subprocess of the current job
    lastAct,      \* history: the latest step of the supervisor or of its
                  \* subprocess, with the Job and the subprocess before it
    ui            \* the Tasks page in one browser tab: what it shows, its
                  \* script variables and its localStorage entries

\* The state of the script processes and of the tree.
scriptVars == <<rootExists, fs, fs0, lock, nruns, pc, run, runid, trap, sig, idx,
                cnt, rc, branch, todo, out, exitCode, pre, res, purged, spawned,
                detected>>

\* The state of the components modelled on their own.
aux == <<chan, job, proc, lastAct, ui>>

vars == <<scriptVars, aux>>

\* No call of the channel functions is under way.
NoChan == [step |-> "off", policy |-> "match", dry |-> TRUE, probe |-> 0,
           detected |-> 0, channels |-> 0]

\* No summary line has been seen.
NoSummary == [present |-> FALSE, success |-> FALSE, failed |-> 0, count |-> 0,
              reason |-> ""]

\* Status none: no job has been accepted yet.
NoJob == [id |-> 0, status |-> "none", mode |-> "convert", dry |-> TRUE,
          cancel_requested |-> FALSE, exit_code |-> -1, summary |-> NoSummary]

\* No subprocess has been started.
NoProc == [state |-> "none", sig |-> FALSE, code |-> -1, summary |-> NoSummary]

NoAct == [name |-> "none", job |-> NoJob, proc |-> NoProc]

\* The status pill: its state class and its two lines.
Pill(cls, l1, l2) == [cls |-> cls, l1 |-> l1, l2 |-> l2]

\* Nothing painted, nothing held.
NoPill == Pill("", "", "")

\* No localStorage entry under a key that holds a terminal key.
NoKey == << >>

\* No localStorage entry under DONE_KEY.
NoDone == [pill |-> NoPill, term |-> NoKey]

\* No Test/Run submit is waiting for its preflight answers; last is the
\* answer of the latest guard that refused on this page, and posts the
\* number of form.submit() calls the latest submit of the user has led to.
NoFlow == [open |-> FALSE, mode |-> "convert", dry |-> TRUE,
           g |-> [i \in 1..3 |-> "no"], last |-> "", posts |-> 0]

\* The page as a first load leaves it, with empty localStorage.
NoUi == [pill |-> NoPill, by |-> "load", cancel |-> FALSE, polled |-> <<0, "">>,
         hold |-> NoPill, done |-> NoDone, doneSeen |-> NoKey,
         holdSeen |-> NoKey, testSeen |-> NoKey, seenTerminal |-> NoKey,
         seenJid |-> 0, navReload |-> FALSE, dismissRun |-> FALSE,
         flow |-> NoFlow, post |-> ""]

\* The supervisor and its subprocess are not part of the run.
AuxIdle ==
    /\ job = NoJob
    /\ proc = NoProc
    /\ lastAct = NoAct
    /\ ui = NoUi

NoRes == [b \in Books |-> "pending"]

\* The script's part of the initial state on the tree t.
ScriptInit(t) ==
    /\ fs = t
    /\ fs0 = fs
    /\ lock = 0
    /\ nruns = 0
    /\ pc = [p \in Procs |-> "idle"]
    /\ run = [p \in Procs |-> [mode |-> "convert", dry |-> TRUE]]
    /\ runid = [p \in Procs |-> 0]
    /\ trap = [p \in Procs |-> FALSE]
    /\ sig = [p \in Procs |-> FALSE]
    /\ idx = [p \in Procs |-> 0]
    /\ cnt = [p \in Procs |-> ZeroCnt]
    /\ rc = [p \in Procs |-> 0]
    /\ branch = [p \in Procs |-> "none"]
    /\ todo = [p \in Procs |-> {}]
    /\ out = [p \in Procs |-> << >>]
    /\ exitCode = [p \in Procs |-> -1]
    /\ pre = [p \in Procs |-> NoTree]
    /\ res = [p \in Procs |-> NoRes]
    /\ purged = {}
    /\ spawned = [p \in Procs |-> {}]
    /\ detected = [p \in Procs |-> 0]

Init ==
    /\ rootExists \in BOOLEAN
    /\ \E t \in IF rootExists THEN Trees ELSE {NoTree} : ScriptInit(t)
    /\ chan = NoChan
    /\ AuxIdle

\* ------------------------------------------------------------ helpers
DryNever(p) == FALSE

\* Lines 45-47: is_dry_run.
Dry(p) == run[p].dry

BumpTwice(p, field) == [cnt EXCEPT ![p][field] = @ + 2]

Bump(p, field) == [cnt EXCEPT ![p][field] = @ + 1]

Emit(p, s) == [out EXCEPT ![p] = Append(@, s)]

ReleasedNever(p) == lock

\* fd 9 is closed with the process, and the flock with it.
Released(p) == IF lock = p THEN 0 ELSE lock

\* The process leaves the script: its locals are gone.
Leave(p, code) ==
    /\ pc' = [pc EXCEPT ![p] = "exited"]
    /\ exitCode' = [exitCode EXCEPT ![p] = code]
    /\ lock' = Released(p)
    /\ trap' = [trap EXCEPT ![p] = FALSE]
    /\ sig' = [sig EXCEPT ![p] = FALSE]
    /\ idx' = [idx EXCEPT ![p] = 0]
    /\ cnt' = [cnt EXCEPT ![p] = ZeroCnt]
    /\ rc' = [rc EXCEPT ![p] = 0]
    /\ branch' = [branch EXCEPT ![p] = "none"]
    /\ todo' = [todo EXCEPT ![p] = {}]
    /\ pre' = [pre EXCEPT ![p] = NoTree]
    /\ res' = [res EXCEPT ![p] = NoRes]
    /\ detected' = [detected EXCEPT ![p] = 0]

\* ------------------------------------------------- start, lock and trap
\* Nothing before the flock of line 139 touches shared state but the test
\* of ROOT, so a start is one step up to the outcome of the lock attempt.
\* Process slots are taken in order: slot p is first used after slot p - 1.
Launch(p, m, d) ==
    /\ pc[p] \in {"idle", "exited"}
    /\ \A q \in Procs : q < p => pc[q] # "idle"
    /\ nruns < MaxRuns
    /\ nruns' = nruns + 1
    /\ run' = [run EXCEPT ![p] = [mode |-> m, dry |-> d]]
    /\ runid' = [runid EXCEPT ![p] = nruns + 1]

StartRootMissingLate(p, m, d) ==
    /\ Launch(p, m, d)
    /\ ~rootExists
    /\ lock = 0
    /\ lock' = p
    /\ out' = [out EXCEPT ![p] = << >>]
    /\ exitCode' = [exitCode EXCEPT ![p] = -1]
    /\ pre' = [pre EXCEPT ![p] = fs]
    /\ pc' = [pc EXCEPT ![p] = "locked"]
    /\ spawned' = [spawned EXCEPT ![p] = {}]
    /\ UNCHANGED <<aux, detected, purged, rootExists, fs, fs0, trap, sig, idx, cnt, rc, branch,
                   todo, res>>

\* Lines 126-133: ROOT is not a directory.
StartRootMissing(p, m, d) ==
    /\ Launch(p, m, d)
    /\ ~rootExists
    /\ out' = [out EXCEPT ![p] = <<Summary(FALSE, 0, 0, 1, 0, 0, "root_missing")>>]
    /\ exitCode' = [exitCode EXCEPT ![p] = 1]
    /\ pc' = [pc EXCEPT ![p] = "exited"]
    /\ spawned' = [spawned EXCEPT ![p] = {}]
    /\ UNCHANGED <<aux, detected, purged, rootExists, fs, fs0, lock, trap, sig, idx, cnt, rc,
                   branch, todo, pre, res>>

LockFreeAlways == TRUE

LockFreeBetweenBooks == lock = 0 \/ \E q \in Procs : pc[q] = "convert"

\* The non-blocking flock of line 139.
LockFree == lock = 0

\* Lines 136-145, lock busy: the summary of the rejected run and exit 1.
StartRejected(p, m, d) ==
    /\ Launch(p, m, d)
    /\ rootExists
    /\ ~LockFree
    /\ out' = [out EXCEPT ![p] = <<Summary(FALSE, 0, 0, 1, 0, 0, "already_running")>>]
    /\ exitCode' = [exitCode EXCEPT ![p] = 1]
    /\ pc' = [pc EXCEPT ![p] = "exited"]
    /\ spawned' = [spawned EXCEPT ![p] = {}]
    /\ UNCHANGED <<aux, detected, purged, rootExists, fs, fs0, lock, trap, sig, idx, cnt, rc,
                   branch, todo, pre, res>>

\* Lines 136-139, lock free: the run holds the lock from here on.
StartLocked(p, m, d) ==
    /\ Launch(p, m, d)
    /\ rootExists
    /\ LockFree
    /\ lock' = p
    /\ out' = [out EXCEPT ![p] = << >>]
    /\ exitCode' = [exitCode EXCEPT ![p] = -1]
    /\ pre' = [pre EXCEPT ![p] = fs]
    /\ pc' = [pc EXCEPT ![p] = "locked"]
    /\ spawned' = [spawned EXCEPT ![p] = {}]
    /\ UNCHANGED <<aux, detected, purged, rootExists, fs, fs0, trap, sig, idx, cnt, rc, branch,
                   todo, res>>

\* Line 155 (trap on_cancel INT TERM) and the mode dispatch of lines 161, 203, 272.
InstallTrap(p) ==
    /\ pc[p] = "locked"
    /\ trap' = [trap EXCEPT ![p] = TRUE]
    /\ pc' = [pc EXCEPT ![p] = CASE run[p].mode = "cleanup" -> "cleanup"
                                  [] run[p].mode = "correct" -> "correct"
                                  [] OTHER -> "pull"]
    /\ UNCHANGED <<aux, spawned, detected, purged, rootExists, fs, fs0, lock, nruns, run, runid, sig, idx, cnt,
                   rc, branch, todo, out, exitCode, pre, res>>

\* SIGINT/SIGTERM before the trap is installed: the default disposition ends
\* the process, nothing is written.
Kill(p) ==
    /\ pc[p] = "locked"
    /\ ~trap[p]
    /\ Leave(p, 143)
    /\ UNCHANGED <<aux, spawned, purged, rootExists, fs, fs0, nruns, run, runid, out>>

\* SIGINT/SIGTERM once the trap is installed: pending until bash is between
\* commands.
Cancel(p) ==
    /\ trap[p]
    /\ ~sig[p]
    /\ pc[p] \notin {"idle", "exited", "canceled"}
    /\ sig' = [sig EXCEPT ![p] = TRUE]
    /\ UNCHANGED <<aux, spawned, detected, purged, rootExists, fs, fs0, lock, nruns, pc, run, runid, trap, idx,
                   cnt, rc, branch, todo, out, exitCode, pre, res>>

\* Lines 148-154: on_cancel, run when bash is not waiting for a foreground
\* command.
OnCancel(p) ==
    /\ trap[p]
    /\ sig[p]
    /\ pc[p] \notin {"tool", "exited", "canceled"}
    /\ out' = Emit(p, Summary(FALSE, 0, 0, 1, 0, 0, "canceled"))
    /\ exitCode' = [exitCode EXCEPT ![p] = 130]
    /\ pc' = [pc EXCEPT ![p] = "canceled"]
    /\ UNCHANGED <<aux, spawned, detected, purged, rootExists, fs, fs0, lock, nruns, run, runid, trap, sig, idx,
                   cnt, rc, branch, todo, pre, res>>

\* exit: the process is gone and its lock with it.
Exit(p) ==
    /\ \/ pc[p] = "canceled"
       \/ pc[p] = "done" /\ ~sig[p]
    /\ Leave(p, exitCode[p])
    /\ UNCHANGED <<aux, spawned, purged, rootExists, fs, fs0, nruns, run, runid, out>>

\* The steps of the three modes run only between signals: a pending signal
\* makes on_cancel the next thing bash runs.
Running(p, at) == pc[p] = at /\ ~sig[p]

Goto(p, at) == pc' = [pc EXCEPT ![p] = at]

\* Lines 509-540 and the exits of lines 175, 196, 265: the last summary and
\* the exit status.
Finish(p, s, code) ==
    /\ out' = Emit(p, s)
    /\ exitCode' = [exitCode EXCEPT ![p] = code]
    /\ Goto(p, "done")

\* ------------------------------------------------------------ cleanup
\* Line 166-168: find "$ROOT" -type d -iname "_backup_files".
BackupDirs == {b \in Books : fs[b].bkdir}

\* Lines 161-177: list the backup folders; none means an early summary.
CleanupList(p) ==
    /\ Running(p, "cleanup")
    /\ IF BackupDirs = {}
       THEN /\ Finish(p, Summary(TRUE, 0, 0, 0, 0, 0, ""), 0)
            /\ UNCHANGED todo
       ELSE /\ todo' = [todo EXCEPT ![p] = BackupDirs]
            /\ Goto(p, "cleanup_loop")
            /\ UNCHANGED <<out, exitCode>>
    /\ UNCHANGED <<aux, spawned, detected, purged, rootExists, fs, fs0, lock, nruns, run, runid, trap, sig, idx,
                   cnt, rc, branch, pre, res>>

Least(S) == CHOOSE x \in S : \A y \in S : x <= y

RemoveBackupNot(d) == d

\* Line 187: rm -rf "$dir".
RemoveBackup(d) == [d EXCEPT !.bkdir = FALSE, !.bk = {}]

CleanupDeleteDryUncounted(p) ==
    /\ Running(p, "cleanup_loop")
    /\ todo[p] # {}
    /\ LET b == Least(todo[p]) IN
       /\ fs' = IF Dry(p) THEN fs ELSE [fs EXCEPT ![b] = RemoveBackup(@)]
       /\ todo' = [todo EXCEPT ![p] = @ \ {b}]
       /\ res' = [res EXCEPT ![p][b] = "deleted"]
       /\ purged' = IF Dry(p) THEN purged
                    ELSE purged \cup {<<b, e[1], e[2]>> : e \in {x \in fs[b].bk : x[3] = "orig"}}
    /\ cnt' = IF Dry(p) THEN cnt ELSE Bump(p, "deleted")
    /\ UNCHANGED <<aux, spawned, detected, rootExists, fs0, lock, nruns, pc, run, runid,
                   trap, sig, idx, rc, branch, out, exitCode, pre>>

\* Lines 181-190: one iteration of the deletion loop.
CleanupDelete(p) ==
    /\ Running(p, "cleanup_loop")
    /\ todo[p] # {}
    /\ LET b == Least(todo[p]) IN
       /\ fs' = IF Dry(p) THEN fs ELSE [fs EXCEPT ![b] = RemoveBackup(@)]
       /\ todo' = [todo EXCEPT ![p] = @ \ {b}]
       /\ res' = [res EXCEPT ![p][b] = "deleted"]
       /\ purged' = IF Dry(p) THEN purged
                    ELSE purged \cup {<<b, e[1], e[2]>> : e \in {x \in fs[b].bk : x[3] = "orig"}}
    /\ cnt' = Bump(p, "deleted")
    /\ UNCHANGED <<aux, spawned, detected, rootExists, fs0, lock, nruns, pc, run, runid,
                   trap, sig, idx, rc, branch, out, exitCode, pre>>

\* Lines 192-197.
CleanupFinish(p) ==
    /\ Running(p, "cleanup_loop")
    /\ todo[p] = {}
    /\ Finish(p, Summary(TRUE, 0, 0, 0, 0, cnt[p].deleted, ""), 0)
    /\ UNCHANGED <<aux, spawned, detected, purged, rootExists, fs, fs0, lock, nruns, run, runid, trap, sig, idx,
                   cnt, rc, branch, todo, pre, res>>

\* ------------------------------------------------------------ correct
\* Line 220: find "$book_dir" -maxdepth 1 -type f -iname "*.m4b"; the names
\* of the files it lists.
M4bNames(d) ==
    {n \in {"out", "named", "other", "tmp"} : d[n] # NoFile}

RenameNot(d, n) == d

\* Lines 234-250 for the one file found: mv -f to "<Book> - <Author>.m4b".
Rename(d, n) == [[d EXCEPT ![n] = NoFile] EXCEPT !.named = d[n]]

CorrectPlanGuess(b, d) ==
    IF IsRecycle(b) THEN "recycle"
    ELSE IF Cardinality(M4bNames(d)) = 0 THEN "skipped_none"
    ELSE IF M4bNames(d) = {"named"} THEN "already_ok"
    ELSE "renamed"

\* Lines 218-242: what the correct loop decides for one book folder.
CorrectPlan(b, d) ==
    IF IsRecycle(b) THEN "recycle"
    ELSE IF Cardinality(M4bNames(d)) = 0 THEN "skipped_none"
    ELSE IF Cardinality(M4bNames(d)) > 1 THEN "skipped_multi"
    ELSE IF M4bNames(d) = {"named"} THEN "already_ok"
    ELSE "renamed"

\* Lines 213-251: one book folder of the correct loop.
CorrectBook(p) ==
    /\ Running(p, "correct")
    /\ idx[p] <= NumBooks
    /\ LET b == idx[p]
           d == fs[b]
           plan == CorrectPlan(b, d)
       IN
       /\ res' = [res EXCEPT ![p][b] = plan]
       /\ cnt' = IF plan = "recycle" THEN cnt ELSE Bump(p, plan)
       /\ fs' = IF plan = "renamed" /\ ~Dry(p)
                THEN [fs EXCEPT ![b] = Rename(@, CHOOSE n \in M4bNames(d) : TRUE)]
                ELSE fs
    /\ idx' = [idx EXCEPT ![p] = @ + 1]
    /\ UNCHANGED <<aux, spawned, detected, purged, rootExists, fs0, lock, nruns, pc, run, runid, trap, sig, rc,
                   branch, todo, out, exitCode, pre>>

\* Lines 254-266.
CorrectFinish(p) ==
    /\ Running(p, "correct")
    /\ idx[p] > NumBooks
    /\ Finish(p, Summary(TRUE, 0, 0, 0, cnt[p].renamed, 0, ""), 0)
    /\ UNCHANGED <<aux, spawned, detected, purged, rootExists, fs, fs0, lock, nruns, run, runid, trap, sig, idx,
                   cnt, rc, branch, todo, pre, res>>

\* ------------------------------------------------------------ convert
\* Lines 276-283: the docker pull of the two images, skipped in a dry run.
Pulls(dry) == IF dry THEN {} ELSE {"pull"}

\* Lines 275-283: docker pull of the two images, skipped in a dry run.
PullImages(p) ==
    /\ Running(p, "pull")
    /\ spawned' = [spawned EXCEPT ![p] = @ \cup Pulls(Dry(p))]
    /\ Goto(p, "convert")
    /\ UNCHANGED <<aux, detected, purged, rootExists, fs, fs0, lock, nruns, run, runid, trap, sig, idx,
                   cnt, rc, branch, todo, out, exitCode, pre, res>>

HasM4bCanonicalOnly(d) == d.out # NoFile

\* Line 298: a top-level *.m4b whose name matches neither ".tmp_*.m4b" nor
\* "tmp_*.m4b".
HasM4b(d) ==
    \/ d.other # NoFile
    \/ ~d.hid /\ (d.out # NoFile \/ d.named # NoFile)

ConvertPlanNoEmptyCheck(b, d) ==
    IF IsRecycle(b) THEN "recycle"
    ELSE IF HasM4b(d) THEN "skip_has_m4b"
    ELSE IF d.mp3 # {} THEN "convert_mp3"
    ELSE IF Cardinality(d.m4a) = 1 THEN "convert_single_m4a"
    ELSE "convert_multi_m4a"

ConvertPlanM4aFirst(b, d) ==
    IF IsRecycle(b) THEN "recycle"
    ELSE IF HasM4b(d) THEN "skip_has_m4b"
    ELSE IF d.mp3 = {} /\ d.m4a = {} THEN "skip_empty"
    ELSE IF Cardinality(d.m4a) = 1 THEN "convert_single_m4a"
    ELSE IF Cardinality(d.m4a) > 1 THEN "convert_multi_m4a"
    ELSE "convert_mp3"

ConvertPlanAlways(b, d) ==
    IF IsRecycle(b) THEN "recycle"
    ELSE IF d.mp3 = {} /\ d.m4a = {} THEN "skip_empty"
    ELSE IF d.mp3 # {} THEN "convert_mp3"
    ELSE IF Cardinality(d.m4a) = 1 THEN "convert_single_m4a"
    ELSE "convert_multi_m4a"

ConvertPlanNoExistsCheck(b, d) ==
    IF IsRecycle(b) THEN "recycle"
    ELSE IF HasM4b(d) THEN "skip_has_m4b"
    ELSE IF d.mp3 = {} /\ d.m4a = {} THEN "skip_empty"
    ELSE IF d.mp3 # {} THEN "convert_mp3"
    ELSE IF Cardinality(d.m4a) = 1 THEN "convert_single_m4a"
    ELSE "convert_multi_m4a"

\* Lines 296-329 and 341, 411: what the convert loop decides for one folder.
ConvertPlan(b, d) ==
    IF IsRecycle(b) THEN "recycle"
    ELSE IF HasM4b(d) THEN "skip_has_m4b"
    ELSE IF d.mp3 = {} /\ d.m4a = {} THEN "skip_empty"
    ELSE IF d.out # NoFile THEN "skip_exists"
    ELSE IF d.mp3 # {} THEN "convert_mp3"
    ELSE IF Cardinality(d.m4a) = 1 THEN "convert_single_m4a"
    ELSE "convert_multi_m4a"

Converts(plan) == plan \in {"convert_mp3", "convert_single_m4a", "convert_multi_m4a"}

RemoveStaleTempNot(d) == d

\* Line 323: rm -f "${tmp_path}", reached by every folder that has sources.
RemoveStaleTemp(d) == [d EXCEPT !.tmp = NoFile]

\* What ffprobe may print for the channel count of the first file; 0 stands
\* for a probe that failed (the "|| echo 2" of line 93).
ProbeOutputs == {0, 1, 2, 6}

detect_channelsProbing(dry, probe) ==
    [ch |-> IF probe = 1 THEN 1 ELSE 2, spawn |-> {"probe"}]

\* Lines 78-100: detect_channels. A dry run answers stereo without starting
\* the probe container; any count but 1 is stereo.
detect_channels(dry, probe) ==
    IF dry THEN [ch |-> 2, spawn |-> {}]
    ELSE [ch |-> IF probe = 1 THEN 1 ELSE 2, spawn |-> {"probe"}]

\* Lines 343, 444: the branches that call detect_channels.
Detects(plan) == plan \in {"convert_mp3", "convert_multi_m4a"}

\* Lines 352-366, 417-434, 453-467: the tool the branch runs.
ToolOf(plan) == IF plan = "convert_single_m4a" THEN "remux" ELSE "merge"

\* Lines 291-364 (and 411-465): one book folder up to the start of the tool;
\* a dry run ends the iteration here.
ConvertBook(p) ==
    /\ Running(p, "convert")
    /\ idx[p] <= NumBooks
    /\ LET b == idx[p]
           d == fs[b]
           plan == ConvertPlan(b, d)
       IN
       /\ fs' = IF plan \in {"recycle", "skip_has_m4b", "skip_empty"} THEN fs
                ELSE [fs EXCEPT ![b] = RemoveStaleTemp(d)]
       /\ cnt' = CASE plan \in {"skip_has_m4b", "skip_exists"} -> Bump(p, "skipped")
                   [] Converts(plan) /\ Dry(p) -> Bump(p, "created")
                   [] OTHER -> cnt
       /\ IF Converts(plan) /\ ~Dry(p)
          THEN /\ Goto(p, "tool")
               /\ branch' = [branch EXCEPT ![p] = plan]
               /\ res' = [res EXCEPT ![p][b] = "running"]
               /\ UNCHANGED idx
          ELSE /\ idx' = [idx EXCEPT ![p] = @ + 1]
               /\ res' = [res EXCEPT ![p][b] = IF Converts(plan) THEN "dry" ELSE plan]
               /\ UNCHANGED <<pc, branch>>
       /\ \E probe \in ProbeOutputs :
             LET det == detect_channels(Dry(p), probe) IN
             /\ detected' = IF Detects(plan) THEN [detected EXCEPT ![p] = det.ch]
                             ELSE detected
             /\ spawned' = [spawned EXCEPT ![p] =
                    @ \cup (IF Detects(plan) THEN det.spawn ELSE {})
                      \cup (IF Converts(plan) /\ ~Dry(p) THEN {ToolOf(plan)} ELSE {})]
    /\ UNCHANGED <<aux, purged, rootExists, fs0, lock, nruns, run, runid, trap, sig, rc, todo,
                   out, exitCode, pre>>

\* The sizes a tool may leave at the temp path.
ToolSizes == {MIN_BYTES - 1, MIN_BYTES}

\* Lines 366, 434, 467: the external tool returns, with any exit status and
\* with or without a temp file.
ToolFinish(p) ==
    /\ pc[p] = "tool"
    /\ \E r \in {0, 1} :
       /\ rc' = [rc EXCEPT ![p] = r]
       /\ \E f \in {NoFile} \cup {[size |-> s, by |-> runid[p], rc |-> r] : s \in ToolSizes} :
             fs' = [fs EXCEPT ![idx[p]].tmp = f]
    /\ Goto(p, "result")
    /\ UNCHANGED <<aux, spawned, detected, purged, rootExists, fs0, lock, nruns, run, runid, trap, sig, idx, cnt,
                   branch, todo, out, exitCode, pre, res>>

TooSmallNever(size) == FALSE

\* Lines 382, 484: [[ "${size_bytes}" -lt "${MIN_BYTES}" ]].
TooSmall(size) == size < MIN_BYTES

VerdictUnchecked(r, d) == IF r # 0 THEN "failed_tool" ELSE "created"

VerdictIgnoresExit(r, d) ==
    IF d.tmp = NoFile THEN "failed_missing"
    ELSE IF TooSmall(d.tmp.size) THEN "failed_small"
    ELSE "created"

\* Lines 366-392 and 434-494: what the loop makes of the tool's result.
Verdict(r, d) ==
    IF r # 0 THEN "failed_tool"
    ELSE IF d.tmp = NoFile THEN "failed_missing"
    ELSE IF TooSmall(d.tmp.size) THEN "failed_small"
    ELSE "created"

PlaceOutputCopy(d) == [d EXCEPT !.out = d.tmp]

\* Lines 389, 491: mv -f "${tmp_path}" "${out_path}".
PlaceOutput(d) == [d EXCEPT !.out = d.tmp, !.tmp = NoFile]

DiscardTempNot(d) == d

\* Lines 370, 438, 471: rm -f "${tmp_path}" after a failed tool.
DiscardTemp(d) == [d EXCEPT !.tmp = NoFile]

AfterVerdictTidy(v, d) ==
    CASE v \in {"failed_tool", "failed_small"} -> DiscardTemp(d)
      [] v = "created" -> PlaceOutput(d)
      [] OTHER -> d

\* What each verdict does to the book folder: a failed tool's temp file is
\* removed, a validated temp file becomes the output, anything else stays.
AfterVerdict(v, d) ==
    CASE v = "failed_tool" -> DiscardTemp(d)
      [] v = "created" -> PlaceOutput(d)
      [] OTHER -> d

HandleResultRetry(p) ==
    /\ Running(p, "result")
    /\ LET b == idx[p]
           d == fs[b]
           v == Verdict(rc[p], d)
       IN
       /\ res' = [res EXCEPT ![p][b] = v]
       /\ fs' = [fs EXCEPT ![b] = AfterVerdict(v, d)]
       /\ cnt' = IF v = "created" THEN Bump(p, "created") ELSE Bump(p, "failed")
       /\ IF v = "created" THEN Goto(p, "mkdir") ELSE Goto(p, "convert")
    /\ UNCHANGED <<aux, spawned, detected, purged, rootExists, fs0, lock, nruns, run, runid, trap, sig, rc,
                   branch, todo, out, exitCode, pre, idx>>

\* Lines 366-392 and 434-494: failure handling, validation and the rename of
\* the temp file to the canonical output.
HandleResult(p) ==
    /\ Running(p, "result")
    /\ LET b == idx[p]
           d == fs[b]
           v == Verdict(rc[p], d)
       IN
       /\ res' = [res EXCEPT ![p][b] = v]
       /\ fs' = [fs EXCEPT ![b] = AfterVerdict(v, d)]
       /\ cnt' = IF v = "created" THEN Bump(p, "created") ELSE Bump(p, "failed")
       /\ IF v = "created"
          THEN Goto(p, "mkdir") /\ UNCHANGED idx
          ELSE Goto(p, "convert") /\ idx' = [idx EXCEPT ![p] = @ + 1]
    /\ UNCHANGED <<aux, spawned, detected, purged, rootExists, fs0, lock, nruns, run, runid, trap, sig, rc,
                   branch, todo, out, exitCode, pre>>

\* Lines 399, 501: mkdir -p "${backup_dir}".
MakeBackupDir(p) ==
    /\ Running(p, "mkdir")
    /\ fs' = [fs EXCEPT ![idx[p]].bkdir = TRUE]
    /\ Goto(p, "backup")
    /\ UNCHANGED <<aux, spawned, detected, purged, rootExists, fs0, lock, nruns, run, runid, trap, sig, idx, cnt,
                   rc, branch, todo, out, exitCode, pre, res>>

\* The type of source the branch consumed.
Consumed(p) == IF branch[p] = "convert_mp3" THEN "mp3" ELSE "m4a"

MoveToBackupLossy(d, t, S) == [d EXCEPT ![t] = @ \ S]

\* mv -f of the files S of type t into _backup_files: a file of the same
\* name there is replaced.
MoveToBackup(d, t, S) ==
    [d EXCEPT ![t] = @ \ S,
              !.bk = {e \in @ : ~(e[1] = t /\ e[2] \in S)}
                     \cup {<<t, i, "orig">> : i \in S}]

\* Lines 400-401, 502-503: find ... | xargs mv -f, all files of the type.
BackupSources(p) ==
    /\ Running(p, "backup")
    /\ fs' = [fs EXCEPT ![idx[p]] = MoveToBackup(@, Consumed(p), @[Consumed(p)])]
    /\ idx' = [idx EXCEPT ![p] = @ + 1]
    /\ Goto(p, "convert")
    /\ UNCHANGED <<aux, spawned, detected, purged, rootExists, fs0, lock, nruns, run, runid, trap, sig, cnt, rc,
                   branch, todo, out, exitCode, pre, res>>

\* The same pipeline ended part-way by the signal (sent to the process
\* group): some files moved, then the trap.
BackupInterrupted(p) ==
    /\ Running(p, "backup")
    /\ \E S \in SUBSET fs[idx[p]][Consumed(p)] :
       /\ S # {}
       /\ S # fs[idx[p]][Consumed(p)]
       /\ fs' = [fs EXCEPT ![idx[p]] = MoveToBackup(@, Consumed(p), S)]
    /\ sig' = [sig EXCEPT ![p] = TRUE]
    /\ UNCHANGED <<aux, spawned, detected, purged, rootExists, fs0, lock, nruns, pc, run, runid, trap, idx, cnt,
                   rc, branch, todo, out, exitCode, pre, res>>

\* Lines 509-540: the summary of a convert run; success is failed = 0.
ConvertFinish(p) ==
    /\ Running(p, "convert")
    /\ idx[p] > NumBooks
    /\ Finish(p, Summary(cnt[p].failed = 0, cnt[p].created, cnt[p].skipped,
                         cnt[p].failed, 0, 0, ""), 0)
    /\ UNCHANGED <<aux, spawned, detected, purged, rootExists, fs, fs0, lock, nruns, run, runid, trap, sig, idx,
                   cnt, rc, branch, todo, pre, res>>

\* ------------------------------------------------------------ the system
Next ==
    \/ \E p \in Procs, m \in Modes, d \in BOOLEAN : StartRootMissing(p, m, d)
    \/ \E p \in Procs, m \in Modes, d \in BOOLEAN : StartRejected(p, m, d)
    \/ \E p \in Procs, m \in Modes, d \in BOOLEAN : StartLocked(p, m, d)
    \/ \E p \in Procs : InstallTrap(p)
    \/ \E p \in Procs : Kill(p)
    \/ \E p \in Procs : Cancel(p)
    \/ \E p \in Procs : OnCancel(p)
    \/ \E p \in Procs : Exit(p)
    \/ \E p \in Procs : CleanupList(p)
    \/ \E p \in Procs : CleanupDelete(p)
    \/ \E p \in Procs : CleanupFinish(p)
    \/ \E p \in Procs : CorrectBook(p)
    \/ \E p \in Procs : CorrectFinish(p)
    \/ \E p \in Procs : PullImages(p)
    \/ \E p \in Procs : ConvertBook(p)
    \/ \E p \in Procs : ToolFinish(p)
    \/ \E p \in Procs : HandleResult(p)
    \/ \E p \in Procs : MakeBackupDir(p)
    \/ \E p \in Procs : BackupSources(p)
    \/ \E p \in Procs : BackupInterrupted(p)
    \/ \E p \in Procs : ConvertFinish(p)

Spec == Init /\ [][Next]_vars

\* ------------------------------------------- the channel functions alone
\* Values the environment variable AUDIO_MODE is given: unset or empty, the
\* three documented policies, and two the script does not know.
AudioModes == {"", "match", "mono", "stereo", "Mono", "surround"}

\* Line 20: an unset or empty AUDIO_MODE becomes the default, match.
AudioMode(env) == IF env = "" THEN "match" ELSE env

resolve_channelsMatchOnly(det, policy) == det

\* Lines 102-111: resolve_channels.
resolve_channels(det, policy) ==
    CASE policy = "mono" -> 1
      [] policy = "stereo" -> 2
      [] OTHER -> det

\* No script process exists; one call of the two functions is about to be
\* made, as lines 343-344 and 444-445 make it.
ChanInit ==
    /\ rootExists = FALSE
    /\ ScriptInit(NoTree)
    /\ \E e \in AudioModes, d \in BOOLEAN, o \in ProbeOutputs :
           chan = [step |-> "detect", policy |-> AudioMode(e), dry |-> d,
                   probe |-> o, detected |-> 0, channels |-> 0]
    /\ AuxIdle

\* Lines 343, 444: detected="$(detect_channels ...)".
ChanDetect ==
    /\ chan.step = "detect"
    /\ chan' = [chan EXCEPT !.step = "resolve",
                            !.detected = detect_channels(chan.dry, chan.probe).ch]
    /\ UNCHANGED <<scriptVars, job, proc, lastAct, ui>>

\* Lines 344, 445: channels="$(resolve_channels "$detected")".
ChanResolve ==
    /\ chan.step = "resolve"
    /\ chan' = [chan EXCEPT !.step = "done",
                            !.channels = resolve_channels(chan.detected, chan.policy)]
    /\ UNCHANGED <<scriptVars, job, proc, lastAct, ui>>

ChanNext == ChanDetect \/ ChanResolve

ChannelSpec == ChanInit /\ [][ChanNext]_vars

\* ------------------------------------------ the job and its subprocess
\* What is left alone by every step of the supervisor and of its subprocess.
JobFrame == UNCHANGED <<scriptVars, chan, ui>>

Record(name) == lastAct' = [name |-> name, job |-> job, proc |-> proc]

\* emit_summary (lines 53-75) as the status surface carries it: count is the
\* field the status pill reads for the job's mode (created, renamed or
\* deleted).
SummaryLine(success, failed, count, reason) ==
    [present |-> TRUE, success |-> success, failed |-> failed, count |-> count,
     reason |-> reason]

\* Lines 126-145: the script gives up at start, on a missing root or on a
\* lock another process holds, with a summary and exit status 1.
ProcSetupFails ==
    /\ proc.state = "starting"
    /\ \E r \in {"root_missing", "already_running"} :
           proc' = [proc EXCEPT !.state = "exited", !.code = 1,
                                !.summary = SummaryLine(FALSE, 1, 0, r)]
    /\ Record("proc")
    /\ UNCHANGED job
    /\ JobFrame

\* Line 155: trap on_cancel INT TERM.
ProcInstallsTrap ==
    /\ proc.state = "starting"
    /\ proc' = [proc EXCEPT !.state = "armed"]
    /\ Record("proc")
    /\ UNCHANGED job
    /\ JobFrame

\* Lines 113-154: a signal that arrives before the trap is installed has its
\* default disposition: the process dies with status 128 + signal number
\* (SIGINT 2, SIGTERM 15) and prints no summary.
ProcKilled ==
    /\ proc.state = "starting"
    /\ proc.sig
    /\ \E c \in {130, 143} :
           proc' = [proc EXCEPT !.state = "exited", !.code = c]
    /\ Record("proc")
    /\ UNCHANGED job
    /\ JobFrame

\* Lines 147-154: on_cancel prints the summary with reason canceled and
\* exits 130.
ProcOnCancel ==
    /\ proc.state = "armed"
    /\ proc.sig
    /\ proc' = [proc EXCEPT !.state = "exited", !.code = 130,
                            !.summary = SummaryLine(FALSE, 1, 0, "canceled")]
    /\ Record("proc")
    /\ UNCHANGED job
    /\ JobFrame

\* Lines 175, 196, 265, 537-541: the mode's loop ends, the final summary is
\* printed and the script exits 0. Only convert counts failed books.
ProcCompletes ==
    /\ proc.state = "armed"
    /\ \E f \in IF job.mode = "convert" THEN {0, 1} ELSE {0}, c \in {0, 1} :
           proc' = [proc EXCEPT !.state = "exited", !.code = 0,
                                !.summary = SummaryLine(f = 0, f, c, "")]
    /\ Record("proc")
    /\ UNCHANGED job
    /\ JobFrame

\* Line 155: SIGINT or SIGTERM sent to the script by somebody else than the
\* supervisor.
ProcSignalled ==
    /\ proc.state \in {"starting", "armed"}
    /\ ~proc.sig
    /\ proc' = [proc EXCEPT !.sig = TRUE]
    /\ Record("signal")
    /\ UNCHANGED job
    /\ JobFrame

StartJobWhileRunning(m, d) == job.status \in {"none", "running", "finished", "canceled"}

\* Start-job surface: a request is accepted when no job is running or being
\* canceled; the new Job replaces the old one and the script is started.
StartJobAccepts(m, d) == job.status \in {"none", "finished", "canceled"}

\* The new Job replaces the old one and the script is started.
Accept(m, d) ==
    /\ job' = [id |-> job.id + 1, status |-> "running", mode |-> m, dry |-> d,
               cancel_requested |-> FALSE, exit_code |-> -1,
               summary |-> NoSummary]
    /\ proc' = [state |-> "starting", sig |-> FALSE, code |-> -1,
                summary |-> NoSummary]
    /\ Record("start")

StartJob(m, d) ==
    /\ StartJobAccepts(m, d)
    /\ job.id < MaxJobs
    /\ Accept(m, d)
    /\ JobFrame

\* Start-job surface while a job is running or being canceled: rejected with
\* already_running, no second process is started.
StartJobRejected(m, d) ==
    /\ ~StartJobAccepts(m, d)
    /\ Record("start_rejected")
    /\ UNCHANGED <<job, proc>>
    /\ JobFrame

CancelAcceptsAlways == TRUE

\* Cancel surface: accepts a cancellation request only while status is
\* running.
CancelAccepts == job.status = "running"

\* A cancellation request: when accepted the Job becomes canceling with
\* cancel_requested set and the subprocess is signalled; otherwise nothing
\* happens.
CancelRequest ==
    /\ IF CancelAccepts
       THEN /\ job' = [job EXCEPT !.status = "canceling",
                                  !.cancel_requested = TRUE]
            /\ proc' = [proc EXCEPT !.sig = TRUE]
       ELSE UNCHANGED <<job, proc>>
    /\ Record("cancel")
    /\ JobFrame

SynthesizeNot(p) == p.summary

\* Termination: the summary the supervisor stores is the one the script
\* printed; a generic failure summary when the script printed none.
Synthesize(p) ==
    IF p.summary.present THEN p.summary
    ELSE SummaryLine(FALSE, 1, 0, "failed")

\* Termination: the worker sees its subprocess exit and finalises the Job:
\* canceled after a cancellation request, finished otherwise.
Finalize ==
    /\ job.status \in {"running", "canceling"}
    /\ proc.state = "exited"
    /\ job' = [job EXCEPT
                 !.status = IF job.cancel_requested THEN "canceled" ELSE "finished",
                 !.exit_code = proc.code,
                 !.summary = Synthesize(proc)]
    /\ Record("finalize")
    /\ UNCHANGED proc
    /\ JobFrame

JobInit ==
    /\ rootExists = FALSE
    /\ ScriptInit(NoTree)
    /\ chan = NoChan
    /\ AuxIdle

JobNext ==
    \/ \E m \in Modes, d \in BOOLEAN : StartJob(m, d)
    \/ \E m \in Modes, d \in BOOLEAN : StartJobRejected(m, d)
    \/ CancelRequest
    \/ Finalize
    \/ ProcSetupFails
    \/ ProcInstallsTrap
    \/ ProcKilled
    \/ ProcOnCancel
    \/ ProcCompletes
    \/ ProcSignalled

JobSpec == JobInit /\ [][JobNext]_vars

\* The worker that waits for the subprocess is never held up for ever once
\* the subprocess has exited.
JobFairSpec == JobSpec /\ WF_vars(Finalize)

\* --------------------------------------------------- the Tasks page
\* What every step of the page leaves alone.
UiFrame == UNCHANGED <<scriptVars, chan, job, proc, lastAct>>

\* Answers of /api/preflight: ok, or ok=false with a typed error code.
TypedCodes == {"no_root", "folder_missing", "not_mounted", "write_denied"}

PreAnswers == {"ok"} \cup TypedCodes

\* The request itself may fail.
FetchAnswers == PreAnswers \cup {"exception"}

\* The answers the polls of the page are given: ok, and the typed code whose
\* pill has the error class.
PollAnswers == {"ok", "write_denied"}

\* The modes of the jobs the page polls: the one with a cancel control and
\* one without.
PolledModes == {"convert", "cleanup"}

Ready == Pill("status-idle", "Ready to Brew", "")

\* tasks.js 289-299: preflightToPill; fetchPreflight (275-287) turns a failed
\* request into the code preflight_exception.
preflightToPill(a) ==
    CASE a = "folder_missing" -> Pill("status-warn", "Mapped folder does not exist", "")
      [] a = "not_mounted" -> Pill("status-warn", "Add folder path to M4Brew template", "")
      [] a = "write_denied" -> Pill("status-error", "Write denied", "Fix PUID/PGID or permissions")
      [] a = "no_root" -> Pill("status-warn", "No mapped folder set", "Set Mapped folder above")
      [] a = "exception" -> Pill("status-error", "Preflight error", "Preflight request failed")
      [] OTHER -> Pill("status-error", "Cannot start", a)

\* tasks.js 635-650: the setup pill tick paints when no job is running and
\* preflight says ok=false; the second line is the server's message, which
\* the code stands for here.
SetupPill(a) ==
    CASE a = "not_mounted" -> Pill("status-warn", "Add folder path to M4Brew template", "")
      [] a = "folder_missing" -> Pill("status-warn", "Mapped folder does not exist", "")
      [] a = "write_denied" -> Pill("status-warn", "Setup: No write access", a)
      [] a = "no_root" -> Pill("status-warn", "Setup: Choose a source folder", a)
      [] OTHER -> Pill("status-warn", "Setup needs attention", a)

\* tasks.js 1092-1134 and 1174-1216: what the second and third submit guards
\* paint when they do not submit; the second line of "Fix source folder" is the
\* server's message, which the code stands for here.
GuardPill(a) ==
    CASE a = "exception" -> Pill("status-error", "Can't start job", "Preflight check failed")
      [] a = "folder_missing" -> Pill("status-error", "Mapped folder does not exist", "")
      [] a = "not_mounted" -> Pill("status-error", "Add folder path to M4Brew template", "")
      [] OTHER -> Pill("status-error", "Fix source folder", a)

\* tasks.js 776: _termKey. The start timestamp of a job is its own, as its id
\* is.
TermKey(j) == <<j.id, j.mode, j.status, j.exit_code>>

\* tasks.js 652: showCancel.
ShowCancel(j) == j.status = "running" /\ j.mode = "convert"

\* tasks.js 866: cancelled.
Cancelled(j) == j.cancel_requested \/ j.exit_code = 130

\* tasks.js 840-863 and 883-905: the state class of a Done or Nothing pill of
\* a real run.
RunClass(m) ==
    CASE m = "convert" -> "status-run1"
      [] m = "correct" -> "status-run2"
      [] OTHER -> "status-run3"

\* The pill with the hold and the localStorage entries that go with it.
Painted(u, pill) == [u EXCEPT !.pill = pill]

Held(u, pill) == [u EXCEPT !.pill = pill, !.hold = pill]

ClassifyFailedFirst(u, j, key, seenT) ==
    IF j.summary.failed > 0 /\ j.summary.count = 0
    THEN Painted(u, Pill("status-error", "Error: failed", "See History for details"))
    ELSE IF Cancelled(j)
    THEN Painted(u, Pill("status-warn", "Cancelled", ""))
    ELSE Painted(u, Pill("status-test", "Nothing", ""))

\* tasks.js 866-905: the pill of a terminal job that has not been dismissed.
\* Counts are not part of the text here.
Classify(u, j, key, seenT) ==
    LET failed == j.summary.failed
        count == j.summary.count
        testOnce(pill) == IF u.testSeen # key
                          THEN [Held(u, pill) EXCEPT !.testSeen = key]
                          ELSE Painted(u, pill)
    IN  IF Cancelled(j)
        THEN IF ~seenT THEN Held(u, Pill("status-warn", "Cancelled", ""))
                       ELSE Painted(u, Pill("status-warn", "Cancelled", ""))
        ELSE IF failed > 0 /\ count > 0
        THEN IF j.dry THEN testOnce(Pill("status-warn", "Test: to do, failed", ""))
                      ELSE Painted(u, Pill("status-warn", "Done: failed", ""))
        ELSE IF failed > 0 /\ count = 0
        THEN Painted(u, Pill("status-error", "Error: failed", "See History for details"))
        ELSE IF count > 0
        THEN IF j.dry THEN testOnce(Pill("status-test", "Test: to do", ""))
                      ELSE [Painted(u, Pill(RunClass(j.mode), "Done", ""))
                               EXCEPT !.done = [pill |-> Pill(RunClass(j.mode), "Done", ""),
                                                term |-> key]]
        ELSE IF j.dry
        THEN testOnce(Pill("status-test", "Test: Nothing to do", ""))
        ELSE IF u.holdSeen # key
        THEN [Held(u, Pill(RunClass(j.mode), "Nothing to do", ""))
                 EXCEPT !.holdSeen = key]
        ELSE Painted(u, Pill(RunClass(j.mode), "Nothing to do", ""))

\* tasks.js 775-908: tick on a finished or canceled job; pf is the answer of
\* fetchPreflight. The result carries in "by" whether the job was classified
\* or had been seen or dismissed before.
TickTerminal(u, j, pf) ==
    LET key == TermKey(j)
        seenT == u.seenTerminal = key
        holdActive == u.hold # NoPill
        pfPill == IF pf # "ok" THEN preflightToPill(pf) ELSE Ready
    IN  IF j.status = "finished" /\ ~j.dry /\ (u.navReload \/ u.dismissRun)
        THEN [Painted(u, pfPill) EXCEPT !.by = "tick_seen"]
        ELSE IF j.dry /\ u.testSeen = key /\ ~holdActive
        THEN [Painted(u, IF u.done # NoDone THEN u.done.pill ELSE Ready)
                 EXCEPT !.by = "tick_seen"]
        ELSE IF j.status = "canceled" /\ seenT /\ ~holdActive
        THEN [Painted(u, pfPill) EXCEPT !.by = "tick_seen"]
        ELSE
        LET u1 == IF j.status = "canceled" /\ ~seenT
                  THEN [u EXCEPT !.seenTerminal = key] ELSE u
        IN  IF j.status = "canceled" /\ u.seenJid = j.id
            THEN [Painted(u1, IF pf # "ok" THEN preflightToPill(pf)
                              ELSE IF holdActive THEN u.hold ELSE Ready)
                     EXCEPT !.by = "tick_seen", !.cancel = FALSE]
            ELSE IF ~j.dry /\ j.summary.count > 0 /\ u.doneSeen = key
            THEN [Painted(u1, Ready) EXCEPT !.by = "tick_seen"]
            ELSE IF ~j.dry /\ j.summary.count = 0 /\ u.holdSeen = key /\ ~holdActive
            THEN [Painted(u1, Ready) EXCEPT !.by = "tick_seen"]
            ELSE [Classify(u1, j, key, seenT)
                     EXCEPT !.by = "tick_classified", !.seenJid = j.id]

\* tasks.js 738-756: tick when there is no job.
TickNone(u, pf) ==
    IF pf # "ok" THEN Painted(u, preflightToPill(pf))
    ELSE IF u.hold # NoPill THEN Painted(u, u.hold)
    ELSE IF u.done # NoDone /\ u.doneSeen # u.done.term
    THEN [Painted(u, u.done.pill) EXCEPT !.doneSeen = u.done.term]
    ELSE Painted(u, Ready)

\* tasks.js 757-774: tick on a running job.
TickRunning(u, j) ==
    [u EXCEPT !.dismissRun = FALSE, !.hold = NoPill, !.done = NoDone,
              !.pill = Pill("status-running",
                            IF j.dry THEN "Test: Checking" ELSE "Running", "")]

\* tasks.js 613-925: one poll of /api/job. top is the answer to the poll's own
\* preflight request ("exception" when it failed, which tick ignores), pf the
\* answer fetchPreflight gives, fresh or from its cache.
Tick(top, pf) ==
    /\ LET u0 == [ui EXCEPT !.polled = <<job.id, job.status>>, !.by = "tick"]
       IN  ui' =
           IF job.status \notin {"running", "canceling"} /\ top \in TypedCodes
           THEN [u0 EXCEPT !.pill = SetupPill(top), !.cancel = FALSE,
                           !.by = "tick"]
           ELSE LET u == [u0 EXCEPT !.cancel = ShowCancel(job)]
                IN  CASE job.status = "none" -> TickNone(u, pf)
                      [] job.status = "running" -> TickRunning(u, job)
                      [] job.status \in {"finished", "canceled"} ->
                             TickTerminal(u, job, pf)
                      [] OTHER -> Painted(u, Pill("status-warn", job.status, ""))
    /\ UiFrame

\* tasks.js 184-193: the 2.5 s of a held pill are over.
HoldExpires ==
    /\ ui.hold # NoPill
    /\ ui' = [ui EXCEPT !.hold = NoPill]
    /\ UiFrame

\* tasks.js 212-222: dismissDone.
dismissDone(u) ==
    [u EXCEPT !.doneSeen = IF u.done # NoDone THEN u.done.term ELSE @,
              !.done = NoDone]

\* tasks.js 158-165, 184, 232-237: a new page in the same tab: the script
\* variables start afresh, localStorage is kept, and a reload or a return to
\* the page dismisses the Done pill.
Loaded(u, reload) ==
    [dismissDone(u) EXCEPT !.pill = NoPill, !.by = "load", !.cancel = FALSE,
                           !.polled = <<0, "">>, !.hold = NoPill,
                           !.navReload = reload, !.dismissRun = FALSE,
                           !.flow = NoFlow]

Load(reload) ==
    /\ ui' = Loaded(ui, reload)
    /\ UiFrame

\* tasks.js 167-172: a change in the settings form counts as having seen the
\* last run.
SettingsChange ==
    /\ ui' = [ui EXCEPT !.dismissRun = TRUE]
    /\ UiFrame

\* tasks.js 176-180, 239: every submit on the page marks the last run as
\* seen and dismisses the Done pill.
SubmitSeen ==
    /\ ui' = [dismissDone(ui) EXCEPT !.dismissRun = TRUE]
    /\ UiFrame

\* tasks.js 176-180, 239, 953-960, 1078-1089, 1161-1171: the user submits a
\* step form (Test or Run of mode m): the run is marked as seen, the Done
\* pill is dismissed, and each of the three guards prevents the submit and
\* asks for preflight. The user submits when no guard is waiting and no post
\* of the page is under way, so no form of the page carries
\* __m4brew_allowed yet (the test of lines 1089 and 1171 is false).
Submit(m, d) ==
    /\ \A i \in 1..3 : ui.flow.g[i] # "wait"
    /\ ui.flow.posts = 0
    /\ ui' = [dismissDone(ui) EXCEPT
                 !.dismissRun = TRUE,
                 !.flow = [open |-> TRUE, mode |-> m, dry |-> d,
                           g |-> [i \in 1..3 |-> "wait"],
                           last |-> ui.flow.last, posts |-> 0]]
    /\ UiFrame

GuardPassesUnlessRefused(a) == a \notin TypedCodes

\* tasks.js 963, 1100, 1182: pf && pf.ok === true.
GuardPasses(a) == a = "ok"

\* tasks.js 961-968, 1091-1134, 1173-1216: guard i has its answer a and does
\* not submit: it paints the reason.
GuardRefuses(i, a) ==
    /\ ui.flow.open
    /\ ui.flow.g[i] = "wait"
    /\ ~GuardPasses(a)
    /\ ui' = [ui EXCEPT !.flow.g[i] = "no", !.flow.last = a, !.by = "guard",
                        !.pill = IF i = 1 THEN preflightToPill(a)
                                 ELSE GuardPill(a)]
    /\ UiFrame

\* tasks.js 964, 1101-1102, 1183-1184: guard i has its answer a and calls
\* form.submit(): the browser posts the form to "/"; the page stays, with its
\* other guards still waiting, until the answer to the post replaces it.
\* Start-job surface:
\* the request is accepted when no job is running or being canceled and the
\* server's own preflight passes, and rejected otherwise.
GuardSubmits(i, a, served) ==
    /\ ui.flow.open
    /\ ui.flow.g[i] = "wait"
    /\ GuardPasses(a)
    /\ IF served /\ StartJobAccepts(ui.flow.mode, ui.flow.dry)
       THEN /\ job.id < MaxJobs
            /\ Accept(ui.flow.mode, ui.flow.dry)
       ELSE /\ Record("start_rejected")
            /\ UNCHANGED <<job, proc>>
    /\ ui' = [ui EXCEPT !.post = a,
                        !.flow.g[i] = "sent",
                        !.flow.posts = @ + 1]
    /\ UNCHANGED <<scriptVars, chan>>

\* The answer to a post of the form has arrived and replaces the page: the
\* guards that were still waiting are gone with the old page (tasks.js
\* 158-165 run anew; a submit through form.submit() is no reload and does
\* not dismiss the Done pill).
Navigate ==
    /\ ui.flow.posts > 0
    /\ ui' = [Loaded(ui, FALSE) EXCEPT !.post = ui.post, !.doneSeen = ui.doneSeen,
                                       !.done = ui.done]
    /\ UiFrame

UiNext ==
    \/ \E top \in PollAnswers, pf \in PollAnswers : Tick(top, pf)
    \/ HoldExpires
    \/ \E r \in BOOLEAN : Load(r)
    \/ SettingsChange
    \/ SubmitSeen
    \/ \E m \in PolledModes, d \in BOOLEAN : StartJob(m, d)
    \/ CancelRequest
    \/ Finalize
    \/ ProcSetupFails
    \/ ProcInstallsTrap
    \/ ProcKilled
    \/ ProcOnCancel
    \/ ProcCompletes
    \/ ProcSignalled

\* The page polling the Job of a supervisor that takes requests from any
\* client, and the subprocess.
UiSpec == JobInit /\ [][UiNext]_vars

GuardNext ==
    \/ \E m \in Modes, d \in BOOLEAN : Submit(m, d)
    \/ \E i \in 1..3, a \in FetchAnswers : GuardRefuses(i, a)
    \/ \E i \in 1..3, a \in FetchAnswers, served \in BOOLEAN : GuardSubmits(i, a, served)
    \/ Navigate
    \/ ProcInstallsTrap
    \/ ProcCompletes
    \/ Finalize

\* The step forms of the page, the start-job surface they post to, and jobs
\* that run to their end.
GuardSpec == JobInit /\ [][GuardNext]_vars

\* ------------------------------------------------------------ properties
PastLock(p) == pc[p] \notin {"idle", "exited"}

Rejected(p) == out[p] # << >> /\ out[p][1].reason = "already_running"

RealConvert(p) == lock = p /\ run[p].mode = "convert" /\ ~run[p].dry

Validated(f) == f.rc = 0 /\ f.size >= 5 * 1024 * 1024

FailedKinds == {"failed_tool", "failed_missing", "failed_small"}

FailedBooks(p) == {b \in Books : res[p][b] \in FailedKinds}

\* The folder but for its temp file.
SansTemp(d) == [d EXCEPT !.tmp = NoFile]

SourcesLeft(p, b) == fs[b].mp3 # pre[p][b].mp3 \/ fs[b].m4a # pre[p][b].m4a

\* C1: at most one run is past lock acquisition at any time, and it is the
\* run that holds the lock; a run whose lock attempt failed is not queued:
\* it has exited with status 1 and one summary, success=false and reason
\* already_running, without the lock and without having looked at any book
\* folder.
C1_SingleFlight ==
    /\ \A p, q \in Procs : PastLock(p) /\ PastLock(q) => p = q
    /\ \A p \in Procs : PastLock(p) => lock = p
    /\ \A p \in Procs :
          Rejected(p) =>
             /\ pc[p] = "exited"
             /\ exitCode[p] = 1
             /\ lock # p
             /\ Len(out[p]) = 1
             /\ out[p][1].success = FALSE
             /\ res[p] = NoRes
             /\ pre[p] = NoTree

C1_Witness ==
    \E p, q \in Procs :
       /\ Rejected(p)
       /\ pc[q] = "tool"
       /\ run[p].mode # run[q].mode

\* C2: in a real convert run, a book's sources leave the top level, and its
\* _backup_files directory is made, only when the book's validated output of
\* this run is at the canonical path.
C2_BackupAfterValidation ==
    \A p \in Procs :
       RealConvert(p) =>
          \A b \in Books :
             (SourcesLeft(p, b) \/ fs[b].bkdir # pre[p][b].bkdir) =>
                /\ fs[b].out # NoFile
                /\ fs[b].out.by = runid[p]
                /\ Validated(fs[b].out)
                /\ res[p][b] = "created"

C2_Witness ==
    \E p \in Procs, b \in Books :
       /\ RealConvert(p)
       /\ pre[p][b].mp3 # {}
       /\ fs[b].mp3 = {}

\* C3: a convert pass with DRY_RUN=true leaves the tree under the root as it
\* was when the pass started.
C3_DryConvertLeavesTree ==
    \A p \in Procs :
       (lock = p /\ run[p].mode = "convert" /\ run[p].dry) => fs = pre[p]

\* C4: when a real convert run has been canceled, every file at a canonical
\* output path was there before the run or is the validated output (tool
\* exit 0, size >= 5 MiB) of a book this run completed; and no file that a
\* run placed at a canonical path is ever unvalidated.
C4_CancelLeavesNoPartialOutput ==
    /\ \A b \in Books :
          fs[b].out # NoFile => (fs[b].out.by = 0 \/ Validated(fs[b].out))
    /\ \A p \in Procs :
          (RealConvert(p) /\ pc[p] = "canceled") =>
             \A b \in Books :
                \/ fs[b].out = pre[p][b].out
                \/ /\ res[p][b] = "created"
                   /\ fs[b].out.by = runid[p]
                   /\ Validated(fs[b].out)

C4_Witness ==
    \E p \in Procs, b, c \in Books :
       /\ RealConvert(p)
       /\ pc[p] = "canceled"
       /\ fs[b].out.by = runid[p]
       /\ res[p][c] = "running"
       /\ fs[c].tmp # NoFile

\* C5: when the tool exits non-zero for a book of a real convert run, the
\* book is counted once in failed, its temp file is gone, its folder is
\* otherwise as it was (no output, no _backup_files, sources in place), the
\* loop has moved on, and a completed run has visited every book; the books
\* not yet visited are as they were when the run started.
C5_FailureIsolation ==
    \A p \in Procs :
       RealConvert(p) =>
          /\ \A b \in Books :
                res[p][b] = "failed_tool" =>
                   /\ fs[b] = SansTemp(pre[p][b])
                   /\ idx[p] > b
          /\ cnt[p].failed = Cardinality(FailedBooks(p))
          /\ \A b \in Books : res[p][b] = "pending" => fs[b] = pre[p][b]
          /\ pc[p] = "done" => \A b \in Books : res[p][b] \notin {"pending", "running"}

C5_Witness ==
    \E p \in Procs, b, c \in Books :
       /\ RealConvert(p)
       /\ pc[p] = "done"
       /\ b < c
       /\ res[p][b] = "failed_tool"
       /\ res[p][c] = "created"
       /\ out[p][1].failed = 1
       /\ out[p][1].created = 1

\* C6: a convert run changes the file at a canonical output path only by
\* placing there a temp file of its own that exists after a tool exit of 0
\* and has at least 5 MiB; a temp file missing after exit 0 counts the book
\* as failed and changes nothing else.
C6_OutputOnlyIfValidated ==
    \A p \in Procs :
       RealConvert(p) =>
          \A b \in Books :
             /\ fs[b].out # pre[p][b].out =>
                   /\ res[p][b] = "created"
                   /\ fs[b].out # NoFile
                   /\ fs[b].out.by = runid[p]
                   /\ fs[b].out.rc = 0
                   /\ fs[b].out.size >= MIN_BYTES
             /\ res[p][b] = "failed_missing" =>
                   /\ fs[b] = SansTemp(pre[p][b])
                   /\ b \in FailedBooks(p)
                   /\ cnt[p].failed = Cardinality(FailedBooks(p))
                   /\ cnt[p].created = Cardinality({c \in Books : res[p][c] = "created"})

C6_Witness ==
    \E p \in Procs, b, c \in Books :
       /\ RealConvert(p)
       /\ res[p][b] = "failed_missing"
       /\ res[p][c] = "created"

\* C7: a temp file smaller than 5 MiB counts the book as failed and stays in
\* the folder; no output is created and the folder is otherwise as it was.
C7_SmallTempKept ==
    \A p \in Procs :
       RealConvert(p) =>
          \A b \in Books :
             res[p][b] = "failed_small" =>
                /\ fs[b].tmp # NoFile
                /\ fs[b].tmp.by = runid[p]
                /\ fs[b].tmp.size < MIN_BYTES
                /\ SansTemp(fs[b]) = SansTemp(pre[p][b])
                /\ fs[b].out = NoFile
                /\ cnt[p].failed = Cardinality(FailedBooks(p))

C7_Witness ==
    \E p \in Procs, b \in Books :
       /\ RealConvert(p)
       /\ pc[p] = "done"
       /\ res[p][b] = "failed_small"
       /\ pre[p][b].m4a # {}

\* A source file that was at the top level of its folder at the start is
\* still there or is in the folder's _backup_files.
Present(b, t, i) == i \in fs[b][t] \/ <<t, i, "orig">> \in fs[b].bk

C9_CancelDiscardsTemp ==
    \A p \in Procs :
       (RealConvert(p) /\ pc[p] = "canceled") =>
          \A b \in Books : res[p][b] = "running" => fs[b].tmp = NoFile

\* C10: once a canceled run has exited (status 130) it does not hold the
\* lock, and the lock is only ever held by a run that is still in the
\* script: a later start finds the lock free unless another run is alive.
C10_LockFreeAfterCancel ==
    /\ \A p \in Procs : (pc[p] = "exited" /\ exitCode[p] = 130) => lock # p
    /\ lock # 0 => PastLock(lock)

C10_Witness ==
    \E p, q \in Procs :
       /\ pc[p] = "exited"
       /\ exitCode[p] = 130
       /\ lock = q
       /\ runid[q] > runid[p]

\* The summary a run printed last.
Last(p) == out[p][Len(out[p])]

\* C11: a run holds the lock at every point from acquiring it to the exit of
\* its process, between book iterations included; while it does, no other
\* process is in the script past the lock or has looked at a book folder.
C11_LockHeldThroughout ==
    \A p \in Procs :
       PastLock(p) =>
          /\ lock = p
          /\ \A q \in Procs \ {p} :
                /\ pc[q] \in {"idle", "exited"}
                /\ res[q] = NoRes
                /\ pre[q] = NoTree
                /\ detected[q] = 0

C11_Witness ==
    \E p, q \in Procs :
       /\ lock = p
       /\ ~Dry(p)
       /\ pc[p] = "convert"
       /\ idx[p] = 2
       /\ res[p][1] = "created"
       /\ Rejected(q)
       /\ runid[q] > runid[p]

\* C12: a correct pass or a cleanup pass with DRY_RUN=true leaves the tree as
\* it was when the pass started, at every point of the pass.
C12_DryCorrectCleanupLeaveTree ==
    \A p \in Procs :
       (lock = p /\ run[p].dry /\ run[p].mode \in {"correct", "cleanup"}) =>
          fs = pre[p]

C12_Witness ==
    \E p, q \in Procs :
       /\ p # q
       /\ pc[p] = "exited"
       /\ run[p] = [mode |-> "cleanup", dry |-> TRUE]
       /\ Len(out[p]) = 1
       /\ out[p][1].deleted >= 1
       /\ pc[q] = "done"
       /\ run[q] = [mode |-> "correct", dry |-> TRUE]
       /\ Len(out[q]) = 1
       /\ out[q][1].renamed >= 1
       /\ fs = fs0

\* C13: a dry run starts no helper container: no image pull, no probe, no
\* merge and no remux; a book whose branch detects channels leaves
\* detected = 2, and the run is never at a step that waits for or follows a
\* tool.
C13_DryRunSpawnsNothing ==
    \A p \in Procs :
       (lock = p /\ run[p].dry) =>
          /\ spawned[p] = {}
          /\ detected[p] \in {0, 2}
          /\ pc[p] \notin {"tool", "result", "mkdir", "backup"}
          /\ (\E b \in Books : res[p][b] = "dry" /\ Detects(ConvertPlan(b, pre[p][b])))
                => detected[p] = 2

C13_Witness ==
    \E p \in Procs, b, c \in Books :
       /\ lock = p
       /\ run[p] = [mode |-> "convert", dry |-> TRUE]
       /\ pc[p] = "done"
       /\ res[p][b] = "dry"
       /\ pre[p][b].mp3 # {}
       /\ res[p][c] = "dry"
       /\ Cardinality(pre[p][c].m4a) = 1
       /\ Last(p).created = 2
       /\ detected[p] = 2

\* The run of p printed its final summary and its process has exited.
Completed(p) == pc[p] = "exited" /\ out[p] # << >> /\ Last(p).reason = ""

\* The run of q is the next run after the completed run of p; it holds the
\* lock, so it started on the tree p left.
Follows(p, q) ==
    /\ p # q
    /\ Completed(p)
    /\ PastLock(q)
    /\ runid[q] = runid[p] + 1

\* C14, as stated: a convert run that follows a completed convert run
\* reports created = 0.
C14_ConvertTwiceCreatesNone ==
    \A p, q \in Procs :
       (/\ Follows(p, q)
        /\ run[p].mode = "convert"
        /\ run[q].mode = "convert"
        /\ pc[q] = "done") => Last(q).created = 0

\* C14, amended: a convert run that follows a completed real convert run
\* whose summary has failed = 0 counts no creation at any point and reports
\* created = 0.
C14_ConvertAfterCleanRealConvert ==
    \A p, q \in Procs :
       (/\ Follows(p, q)
        /\ run[p] = [mode |-> "convert", dry |-> FALSE]
        /\ Last(p).success
        /\ Last(p).failed = 0
        /\ run[q].mode = "convert") =>
          /\ cnt[q].created = 0
          /\ spawned[q] \subseteq {"pull"}
          /\ pc[q] = "done" => Last(q).created = 0

C14_Witness ==
    \E p, q \in Procs :
       /\ Follows(p, q)
       /\ run[p] = [mode |-> "convert", dry |-> FALSE]
       /\ Last(p).created = 2
       /\ Last(p).failed = 0
       /\ run[q].mode = "convert"
       /\ pc[q] = "done"
       /\ Last(q).created = 0
       /\ Last(q).skipped = 2

MultiM4b(d) == Cardinality(M4bNames(d)) >= 2

\* A correct run leaves a folder with two or more .m4b files as it is and
\* counts it under skipped-multiple.
MultiSkipped ==
    \A p \in Procs :
       (lock = p /\ run[p].mode = "correct") =>
          /\ \A b \in Books :
                (~IsRecycle(b) /\ MultiM4b(pre[p][b])) =>
                   /\ fs[b] = pre[p][b]
                   /\ idx[p] > b => res[p][b] = "skipped_multi"
          /\ cnt[p].skipped_multi =
                Cardinality({b \in Books : res[p][b] = "skipped_multi"})

\* C15, as stated: a correct run that follows a completed correct run
\* reports renamed = 0; a folder with two or more .m4b files is left alone
\* and counted under skipped-multiple by every correct run.
C15_CorrectTwiceRenamesNone ==
    /\ \A p, q \in Procs :
          (/\ Follows(p, q)
           /\ run[p].mode = "correct"
           /\ run[q].mode = "correct"
           /\ pc[q] = "done") => Last(q).renamed = 0
    /\ MultiSkipped

\* C15, amended: a correct run that follows a completed real correct run
\* counts no rename at any point and reports renamed = 0; a folder with two
\* or more .m4b files is left alone and counted under skipped-multiple by
\* every correct run, dry or real.
C15_CorrectAfterRealCorrect ==
    /\ \A p, q \in Procs :
          (/\ Follows(p, q)
           /\ run[p] = [mode |-> "correct", dry |-> FALSE]
           /\ run[q].mode = "correct") =>
             /\ cnt[q].renamed = 0
             /\ fs = pre[q]
             /\ pc[q] = "done" => Last(q).renamed = 0
    /\ MultiSkipped

C15_Witness ==
    \E p, q \in Procs, b \in Books :
       /\ Follows(p, q)
       /\ run[p] = [mode |-> "correct", dry |-> FALSE]
       /\ Last(p).renamed >= 1
       /\ run[q].mode = "correct"
       /\ pc[q] = "done"
       /\ Last(q).renamed = 0
       /\ res[q][b] = "skipped_multi"

\* The non-recycle folders whose one .m4b file is not yet under the name
\* "<Book> - <Author>.m4b".
Misnamed(t) ==
    {b \in Books : /\ ~IsRecycle(b)
                   /\ Cardinality(M4bNames(t[b])) = 1
                   /\ M4bNames(t[b]) # {"named"}}

OutsideBackup(d) == [d EXCEPT !.bkdir = FALSE, !.bk = {}]

\* C17: when a real cleanup run has completed, no folder has a _backup_files
\* directory, everything outside those directories is as it was, and the
\* summary's deleted is the number of _backup_files directories there were
\* when the run started.
C17_CleanupSweeps ==
    \A p \in Procs :
       (lock = p /\ run[p] = [mode |-> "cleanup", dry |-> FALSE] /\ pc[p] = "done") =>
          /\ \A b \in Books :
                /\ ~fs[b].bkdir
                /\ fs[b].bk = {}
                /\ fs[b] = OutsideBackup(pre[p][b])
          /\ Len(out[p]) = 1
          /\ out[p][1].success
          /\ out[p][1].deleted = Cardinality({b \in Books : pre[p][b].bkdir})

C17_Witness ==
    \E p \in Procs, b \in Books :
       /\ lock = p
       /\ run[p] = [mode |-> "cleanup", dry |-> FALSE]
       /\ pc[p] = "done"
       /\ out[p][1].deleted >= 2
       /\ fs0[b].mp3 # {}
       /\ \A i \in fs0[b].mp3 : <<b, "mp3", i>> \in purged
       /\ fs[b].out # NoFile

\* C18: no run of any mode changes, counts or deletes anything in a book
\* folder under the author folder #recycle.
C18_RecycleExcluded ==
    \A b \in Books :
       IsRecycle(b) =>
          /\ fs[b] = fs0[b]
          /\ \A p \in Procs : res[p][b] \in {"pending", "recycle"}

RootMissing(p) == out[p] # << >> /\ out[p][1].reason = "root_missing"

\* C19: when ROOT is not a directory, a run of any mode prints one summary
\* with success=false and reason root_missing and exits 1; the lock is never
\* taken, no helper is started, no run gets past the start and the tree is
\* untouched. Only a missing root gives that reason.
C19_RootMissingAborts ==
    /\ ~rootExists =>
          /\ lock = 0
          /\ fs = fs0
          /\ \A p \in Procs :
                /\ pc[p] \in {"idle", "exited"}
                /\ spawned[p] = {}
                /\ pc[p] = "exited" => RootMissing(p)
    /\ \A p \in Procs :
          RootMissing(p) =>
             /\ ~rootExists
             /\ pc[p] = "exited"
             /\ exitCode[p] = 1
             /\ Len(out[p]) = 1
             /\ out[p][1].success = FALSE
             /\ res[p] = NoRes

C19_Witness ==
    \E p, q \in Procs :
       /\ RootMissing(p)
       /\ RootMissing(q)
       /\ run[p].mode = "cleanup"
       /\ run[q].mode = "correct"
       /\ ~run[q].dry
       /\ nruns = 2

\* A top-level .m4b file whose name is not of a temp pattern.
NonTempM4b(d) ==
    \/ d.other # NoFile
    \/ ~d.hid /\ (d.out # NoFile \/ d.named # NoFile)

CountsMatch(p) ==
    /\ cnt[p].created = Cardinality({b \in Books : res[p][b] \in {"created", "dry"}})
    /\ cnt[p].skipped = Cardinality({b \in Books : res[p][b] \in {"skip_has_m4b", "skip_exists"}})
    /\ cnt[p].failed = Cardinality({b \in Books : res[p][b] \in FailedKinds})

\* C21: in a convert run, dry or real, a non-recycle folder with no .mp3,
\* .m4a or .m4b file at its top level is classified skip_empty, stays as it
\* is, is never at a tool step and is in none of created, skipped, failed.
C21_EmptySkipped ==
    \A p \in Procs :
       (lock = p /\ run[p].mode = "convert") =>
          /\ \A b \in Books :
                (/\ ~IsRecycle(b)
                 /\ pre[p][b].mp3 = {} /\ pre[p][b].m4a = {}
                 /\ M4bNames(pre[p][b]) = {}) =>
                   /\ fs[b] = pre[p][b]
                   /\ idx[p] > b => res[p][b] = "skip_empty"
                   /\ idx[p] = b => pc[p] \notin {"tool", "result", "mkdir", "backup"}
          /\ CountsMatch(p)

C21_Witness ==
    \E p \in Procs, b, c \in Books :
       /\ lock = p
       /\ run[p] = [mode |-> "convert", dry |-> FALSE]
       /\ pc[p] = "done"
       /\ res[p][b] = "skip_empty"
       /\ pre[p][b] = EmptyDir
       /\ res[p][c] = "created"
       /\ Last(p).created = 1
       /\ Last(p).skipped = 0
       /\ Last(p).failed = 0

\* The branch the sources of a folder call for.
ExpectedBranch(d) ==
    IF d.mp3 # {} THEN "convert_mp3"
    ELSE IF Cardinality(d.m4a) = 1 THEN "convert_single_m4a"
    ELSE "convert_multi_m4a"

\* C22: in a convert run, a non-recycle folder without a non-temp .m4b, with
\* nothing at its canonical output path and with sources is converted on the
\* branch its sources call for: MP3s (with
\* or without M4As) by the merge tool after a probe, one M4A alone by the
\* remux tool, several M4As alone by the merge tool after a probe. When the
\* MP3 branch has created the output, the MP3s are in _backup_files and the
\* M4As are where they were; a mixed folder is a failure only by the tool's
\* verdict.
C22_BranchChoice ==
    \A p \in Procs :
       (lock = p /\ run[p].mode = "convert") =>
          /\ \A b \in Books :
                (/\ ~IsRecycle(b)
                 /\ ~NonTempM4b(pre[p][b])
                 /\ pre[p][b].out = NoFile
                 /\ (pre[p][b].mp3 # {} \/ pre[p][b].m4a # {})) =>
                   /\ (idx[p] = b /\ pc[p] \in {"tool", "result", "mkdir", "backup"}) =>
                         /\ branch[p] = ExpectedBranch(pre[p][b])
                         /\ IF branch[p] = "convert_single_m4a"
                            THEN "remux" \in spawned[p]
                            ELSE {"probe", "merge"} \subseteq spawned[p]
                   /\ idx[p] > b =>
                         res[p][b] \in (IF run[p].dry THEN {"dry"}
                                        ELSE {"created"} \cup FailedKinds)
                   /\ (idx[p] > b /\ res[p][b] = "created" /\ pre[p][b].mp3 # {}) =>
                         /\ fs[b].mp3 = {}
                         /\ fs[b].m4a = pre[p][b].m4a
                         /\ \A i \in pre[p][b].mp3 : <<"mp3", i, "orig">> \in fs[b].bk
                   /\ (idx[p] > b /\ res[p][b] = "created" /\ pre[p][b].mp3 = {}) =>
                         /\ fs[b].m4a = {}
                         /\ \A i \in pre[p][b].m4a : <<"m4a", i, "orig">> \in fs[b].bk
          /\ cnt[p].failed = Cardinality(FailedBooks(p))
          /\ run[p].dry => spawned[p] = {}

C22_Witness ==
    \E p \in Procs, b, c \in Books :
       /\ lock = p
       /\ run[p] = [mode |-> "convert", dry |-> FALSE]
       /\ pc[p] = "tool"
       /\ idx[p] = c
       /\ branch[p] = "convert_single_m4a"
       /\ res[p][b] = "created"
       /\ pre[p][b].mp3 # {}
       /\ pre[p][b].m4a # {}
       /\ fs[b].m4a = pre[p][b].m4a
       /\ cnt[p].failed = 0

\* C24: a run prints at most one summary line, and a run whose process has
\* exited has printed exactly one.
C24_ExactlyOneSummary ==
    \A p \in Procs :
       /\ Len(out[p]) <= 1
       /\ pc[p] = "exited" => Len(out[p]) = 1

\* C30: when a completed dry run is followed by a real run of the same mode
\* on the tree it left, the dry run's count is what the real run does:
\* created is the number of books the real convert run attempted (created
\* plus failed), renamed the number of files the real correct run renamed,
\* deleted the number of _backup_files directories the real cleanup removed.
C30_TestPredictsRun ==
    \A p, q \in Procs :
       (/\ Follows(p, q)
        /\ run[p].dry
        /\ ~run[q].dry
        /\ run[q].mode = run[p].mode
        /\ pc[q] = "done") =>
          CASE run[p].mode = "convert" ->
                  Last(p).created = Last(q).created + Last(q).failed
            [] run[p].mode = "correct" -> Last(p).renamed = Last(q).renamed
            [] OTHER -> Last(p).deleted = Last(q).deleted

C30_Witness ==
    \E p, q \in Procs :
       /\ Follows(p, q)
       /\ run[p] = [mode |-> "convert", dry |-> TRUE]
       /\ run[q] = [mode |-> "convert", dry |-> FALSE]
       /\ pc[q] = "done"
       /\ Last(p).created = 2
       /\ Last(q).created = 1
       /\ Last(q).failed = 1

\* C23: the channel resolver returns mono for policy mono and stereo for
\* policy stereo whatever was detected, and the detected value for policy
\* match or any other policy value; a detected count other than 1 is
\* normalised to stereo, so the resolved channel count is always 1 or 2.
C23_ChannelsResolved ==
    chan.step = "done" =>
        /\ chan.policy = "mono" => chan.channels = 1
        /\ chan.policy = "stereo" => chan.channels = 2
        /\ chan.policy \notin {"mono", "stereo"} => chan.channels = chan.detected
        /\ chan.detected = 1 <=> (~chan.dry /\ chan.probe = 1)
        /\ chan.detected \in {1, 2}
        /\ chan.channels \in {1, 2}

\* A real call whose probe reported six channels, resolved under a policy the
\* script does not know.
C23_Witness ==
    /\ chan.step = "done"
    /\ chan.policy = "surround"
    /\ ~chan.dry
    /\ chan.probe = 6
    /\ chan.channels = 2

\* The status changes the lifecycle none -> running -> (canceling) ->
\* finished | canceled allows within one job.
LifecycleSteps ==
    {<<"running", "canceling">>, <<"running", "finished">>,
     <<"running", "canceled">>, <<"canceling", "finished">>,
     <<"canceling", "canceled">>}

Terminal(j) == j.status \in {"finished", "canceled"}

\* C26: the Job status only moves along none -> running -> (canceling) ->
\* finished | canceled; finished and canceled are terminal until a new job is
\* accepted, and accepting a new job replaces the Job, so that at most one
\* Job (and one subprocess) exists at any time.
C26_Lifecycle ==
    LET before == lastAct.job IN
    /\ job.status \in {"none", "running", "canceling", "finished", "canceled"}
    /\ (job.status = "none") = (job.id = 0)
    /\ lastAct.name = "start" =>
           /\ before.status \in {"none", "finished", "canceled"}
           /\ lastAct.proc.state \in {"none", "exited"}
           /\ job = [NoJob EXCEPT !.id = before.id + 1, !.status = "running",
                                  !.mode = job.mode, !.dry = job.dry]
    /\ lastAct.name # "start" =>
           /\ job.id = before.id
           /\ job.status # before.status =>
                  <<before.status, job.status>> \in LifecycleSteps
           /\ (before.status = "none" \/ Terminal(before)) => job = before

\* The second job has replaced the first and has been canceled by way of
\* canceling.
C26_Witness ==
    /\ job.id = 2
    /\ job.status = "canceled"
    /\ lastAct.name = "finalize"
    /\ lastAct.job.status = "canceling"

\* C27: whenever the batch subprocess has exited, for any reason, the job
\* eventually reaches a terminal state with a summary and does not stay in
\* running; if the subprocess exited without printing a summary line (killed
\* by a signal before its trap was installed), the summary is a synthesised
\* failure.
C27_ExitIsFinalised ==
    /\ (proc.state = "exited") ~> (Terminal(job) /\ job.summary.present)
    /\ [](Terminal(job) =>
              /\ proc.state = "exited"
              /\ job.exit_code = proc.code
              /\ job.summary.present
              /\ ~proc.summary.present =>
                     (job.exit_code # 0 /\ ~job.summary.success))

\* The script died of SIGTERM before line 155, printed nothing, and the job
\* has been finalised.
C27_Witness ==
    /\ Terminal(job)
    /\ proc.code = 143
    /\ ~proc.summary.present
    /\ job.summary.present
    /\ lastAct.name = "finalize"

\* C28: a cancellation request changes the job only while its status is
\* running; in status none, canceling, finished or canceled it changes
\* neither the Job nor the subprocess (which is not signalled, so nothing on
\* disk changes). The page shows the cancel control only for a job it polled
\* in status running.
C28_CancelOnlyWhileRunning ==
    /\ lastAct.name = "cancel" =>
           IF lastAct.job.status = "running"
           THEN /\ job = [lastAct.job EXCEPT !.status = "canceling",
                                             !.cancel_requested = TRUE]
                /\ proc.sig
           ELSE /\ job = lastAct.job
                /\ proc = lastAct.proc
    /\ ui.cancel => ui.polled[2] = "running"

\* The page polled the job while it ran and still shows the cancel control;
\* the job has ended since, a cancellation request was made and changed
\* nothing.
C28_Witness ==
    /\ lastAct.name = "cancel"
    /\ Terminal(lastAct.job)
    /\ job = lastAct.job
    /\ ui.cancel
    /\ ui.polled = <<job.id, "running">>

CancelledPill == Pill("status-warn", "Cancelled", "")

\* What the page may show while the job it polled last is a cancelled one:
\* Cancelled, the idle pill once that has been seen, or the state of the
\* source folder.
CancelledViews ==
    {CancelledPill, Ready}
        \cup {SetupPill(c) : c \in TypedCodes}
        \cup {preflightToPill(c) : c \in TypedCodes \cup {"exception"}}

\* C25: a canceled run is distinguishable from a failed one: the script's
\* summary has reason canceled exactly when on_cancel ran, and then the exit
\* status is 130; and the status pill shows a terminal job with
\* cancel_requested or exit code 130 as Cancelled when it classifies it, and
\* never as an error or as done, whatever its failed and created counts are.
C25_CanceledShownCancelled ==
    /\ proc.summary.reason = "canceled" =>
           /\ proc.state = "exited"
           /\ proc.code = 130
           /\ ~proc.summary.success
    /\ (proc.state = "exited" /\ proc.summary.present
            /\ proc.summary.reason # "canceled") => proc.code \in {0, 1}
    /\ (Terminal(job) /\ Cancelled(job) /\ ui.polled = <<job.id, job.status>>) =>
           /\ ui.pill \in CancelledViews
           /\ ui.by = "tick_classified" => ui.pill = CancelledPill

\* on_cancel ran: the job is canceled with exit code 130 and a summary that
\* counts one failure and nothing created, and the page has classified it.
C25_Witness ==
    /\ job.status = "canceled"
    /\ job.exit_code = 130
    /\ job.summary.reason = "canceled"
    /\ job.summary.failed = 1
    /\ job.summary.count = 0
    /\ ui.polled = <<job.id, job.status>>
    /\ ui.by = "tick_classified"
    /\ ui.pill = CancelledPill

\* What a guard paints for the answer a when it does not submit.
RefusalPills(a) == {preflightToPill(a), GuardPill(a)}

ConsumedOf(d) == IF d.mp3 # {} THEN "mp3" ELSE "m4a"

CreatedBooks(p) == {b \in Books : res[p][b] = "created"}

\* C31: once a real convert run has finished the iteration of a book whose
\* conversion was validated, the canonical output of this run is in the
\* folder, the temp file is gone, every top-level source of the consumed type
\* is in _backup_files and none is left at the top level; created counts
\* that book once and failed does not count it.
C31_SuccessPostcondition ==
    \A p \in Procs :
       RealConvert(p) =>
          /\ \A b \in Books :
                (res[p][b] = "created" /\ idx[p] > b) =>
                   /\ fs[b].out # NoFile
                   /\ fs[b].out.by = runid[p]
                   /\ fs[b].tmp = NoFile
                   /\ fs[b].bkdir
                   /\ fs[b][ConsumedOf(pre[p][b])] = {}
                   /\ \A i \in pre[p][b][ConsumedOf(pre[p][b])] :
                         <<ConsumedOf(pre[p][b]), i, "orig">> \in fs[b].bk
                   /\ b \notin FailedBooks(p)
          /\ cnt[p].created = Cardinality(CreatedBooks(p))
          /\ cnt[p].failed = Cardinality(FailedBooks(p))

C31_Witness ==
    \E p \in Procs, b, c \in Books :
       /\ RealConvert(p)
       /\ pc[p] = "done"
       /\ res[p][b] = "created"
       /\ res[p][c] = "created"
       /\ pre[p][b].mp3 = FileIds
       /\ Cardinality(pre[p][c].m4a) = 1
       /\ pre[p][c].mp3 = {}
       /\ Last(p).created = 2
       /\ Last(p).failed = 0

ToolSteps == {"tool", "result", "mkdir", "backup"}

\* C32: a convert run, dry or real, leaves a file that is at a book's
\* canonical output path as it is; when the file is there although the .m4b
\* detection did not report it and the folder has sources, the book is
\* classified skip_exists, counted once in skipped, and the run is never at
\* a tool step for it.
C32_ExistingOutputKept ==
    \A p \in Procs :
       (lock = p /\ run[p].mode = "convert") =>
          /\ \A b \in Books :
                pre[p][b].out # NoFile =>
                   /\ fs[b].out = pre[p][b].out
                   /\ idx[p] = b => pc[p] \notin ToolSteps
                   /\ (/\ ~IsRecycle(b)
                       /\ ~HasM4b(pre[p][b])
                       /\ pre[p][b].mp3 \cup pre[p][b].m4a # {}
                       /\ idx[p] > b) => res[p][b] = "skip_exists"
          /\ cnt[p].skipped =
                Cardinality({b \in Books : res[p][b] \in {"skip_has_m4b", "skip_exists"}})
          /\ cnt[p].created =
                Cardinality({b \in Books : res[p][b] \in {"created", "dry"}})

C32_Witness ==
    \E p \in Procs, b \in Books :
       /\ RealConvert(p)
       /\ pc[p] = "done"
       /\ res[p][b] = "skip_exists"
       /\ pre[p][b].out # NoFile
       /\ pre[p][b].mp3 # {}
       /\ fs[b].out = pre[p][b].out
       /\ Last(p).skipped = 1
       /\ Last(p).created = 1

\* The states a book ends in without a tool: the skips, and the counted
\* simulation of a dry run.
SkipStates == {"recycle", "skip_has_m4b", "skip_empty", "skip_exists", "dry"}

\* One step of a book within a run: pending to a skip or to running,
\* running to success or to a failure, and nothing else.
BookMoves(s, t) ==
    \/ s = t
    \/ s = "pending" /\ t \in SkipStates \cup {"running"}
    \/ s = "running" /\ t \in FailedKinds \cup {"created"}

\* C33: in every step of a convert run, each book stays in its state or
\* moves forward (pending to skip or running, running to success or failed);
\* only the book the loop is at moves, the loop never steps back, and the
\* tool is started only for a book that is still pending.
C33_BookStateMachine ==
    [][\A p \in Procs :
          (lock = p /\ lock' = p /\ run[p].mode = "convert") =>
             /\ \A b \in Books :
                   /\ BookMoves(res[p][b], res'[p][b])
                   /\ res'[p][b] # res[p][b] => b = idx[p]
             /\ idx'[p] >= idx[p]
             /\ (pc[p] # "tool" /\ pc'[p] = "tool") =>
                   /\ res[p][idx[p]] = "pending"
                   /\ res'[p][idx[p]] = "running"]_vars

C33_Witness ==
    \E p \in Procs, b, c \in Books :
       /\ RealConvert(p)
       /\ pc[p] = "done"
       /\ res[p][b] = "failed_tool"
       /\ res[p][c] = "skip_exists"
       /\ res[p][0] = "recycle"
       /\ "merge" \in spawned[p]

\* C34: a temp file in a book folder is not taken for a .m4b of the book by
\* any pass: a convert pass does not classify the folder skip_has_m4b when
\* the temp file is its only .m4b, and a correct pass classifies the folder
\* as it would without the temp file and leaves the temp file where it is.
C34_TempNeverAnM4b ==
    \A p \in Procs : \A b \in Books :
       (lock = p /\ ~IsRecycle(b) /\ pre[p][b].tmp # NoFile /\ idx[p] > b) =>
          /\ (run[p].mode = "convert" /\ ~NonTempM4b(pre[p][b])) =>
                res[p][b] # "skip_has_m4b"
          /\ run[p].mode = "correct" =>
                /\ res[p][b] = CorrectPlan(b, SansTemp(pre[p][b]))
                /\ fs[b].tmp = pre[p][b].tmp
                /\ fs[b].named = pre[p][b].named \/ pre[p][b].named = NoFile

\* A file that run p did not write: it was there at the start of the
\* behaviour or an earlier run left it.
Stale(p, f) == f # NoFile /\ f.by # runid[p]

\* C35: in a real convert run, from the start of the tool for a book on, no
\* stale temp file is at the book's temp path, and a file the run has put at
\* a canonical output path was written by the tool in this run.
C35_NoStaleTempBecomesOutput ==
    \A p \in Procs :
       RealConvert(p) =>
          \A b \in Books :
             /\ res[p][b] \in {"running", "created"} \cup FailedKinds =>
                   ~Stale(p, fs[b].tmp)
             /\ fs[b].out # pre[p][b].out => ~Stale(p, fs[b].out)

C35_Witness ==
    \E p \in Procs, b \in Books :
       /\ RealConvert(p)
       /\ pre[p][b].tmp # NoFile
       /\ pre[p][b].tmp.by \notin {0, runid[p]}
       /\ res[p][b] = "created"
       /\ fs[b].out.by = runid[p]
       /\ Validated(fs[b].out)

\* The books a convert run has finished with and counts: all but the ones
\* still pending or at the tool, the #recycle folder and the empty folders.
Counted(p) ==
    {b \in Books : res[p][b] \notin {"pending", "running", "recycle", "skip_empty"}}

\* C36: at every point of a convert run, dry or real, each of created,
\* skipped and failed is the number of books that ended that way, so a book
\* is in one counter at most and adds 1 to it; their sum is the number of
\* books processed so far that were not empty, and it never exceeds the
\* number of book folders.
C36_CountersPartitionBooks ==
    \A p \in Procs :
       (lock = p /\ run[p].mode = "convert") =>
          /\ cnt[p].created = Cardinality({b \in Books : res[p][b] \in {"created", "dry"}})
          /\ cnt[p].skipped =
                Cardinality({b \in Books : res[p][b] \in {"skip_has_m4b", "skip_exists"}})
          /\ cnt[p].failed = Cardinality(FailedBooks(p))
          /\ cnt[p].created + cnt[p].skipped + cnt[p].failed = Cardinality(Counted(p))
          /\ cnt[p].created + cnt[p].skipped + cnt[p].failed <= NumBooks
          /\ \A b \in Books : b >= idx[p] => b \notin Counted(p) \/ pc[p] \in {"mkdir", "backup", "canceled"}

C36_Witness ==
    \E p \in Procs, b, c \in Books :
       /\ RealConvert(p)
       /\ pc[p] = "tool"
       /\ idx[p] = c
       /\ b < c
       /\ res[p][b] = "failed_small"
       /\ cnt[p].failed = 1
       /\ cnt[p].created = 0
       /\ cnt[p].skipped = 0

\* C37: every summary a real convert run has printed, completed or
\* canceled, has created equal to the number of books whose output the run
\* placed at a canonical path and failed equal to the number of books whose
\* conversion failed in the run.
C37_SummaryCountsTrue ==
    \A p \in Procs :
       RealConvert(p) =>
          \A i \in 1..Len(out[p]) :
             /\ out[p][i].created =
                   Cardinality({b \in Books : fs[b].out # pre[p][b].out /\ fs[b].out.by = runid[p]})
             /\ out[p][i].failed = Cardinality(FailedBooks(p))

\* C38: a process that has exited after printing a summary with
\* success=false has a non-zero exit status, so one that exited with status
\* 0 printed only success=true; and the summary a convert run prints at its
\* end has success=true exactly when its failed count is 0.
C38_ExitStatusMatchesSuccess ==
    \A p \in Procs :
       /\ pc[p] = "exited" =>
             \A i \in 1..Len(out[p]) : ~out[p][i].success => exitCode[p] # 0
       /\ (run[p].mode = "convert" /\ pc[p] \in {"done", "canceled", "exited"}) =>
             \A i \in 1..Len(out[p]) :
                out[p][i].reason = "" => (out[p][i].success <=> out[p][i].failed = 0)

\* A folder with MP3 and M4A files at its top level.
Mixed(d) == d.mp3 # {} /\ d.m4a # {}

\* C39: when a real convert run has created the output of a folder that held
\* both MP3 and M4A files, the M4A files are at the top level as they were
\* and none of them is in _backup_files, and the MP3 files are the ones moved
\* there; a convert run that follows classifies the folder skip_has_m4b and
\* leaves the M4A files where they are.
C39_MixedKeepsM4a ==
    /\ \A p \in Procs : \A b \in Books :
          (RealConvert(p) /\ Mixed(pre[p][b]) /\ res[p][b] = "created") =>
             /\ fs[b].m4a = pre[p][b].m4a
             /\ \A e \in fs[b].bk : e[1] = "m4a" => e \in pre[p][b].bk
             /\ idx[p] > b =>
                   /\ fs[b].mp3 = {}
                   /\ \A i \in pre[p][b].mp3 : <<"mp3", i, "orig">> \in fs[b].bk
    /\ \A p, q \in Procs : \A b \in Books :
          (/\ Follows(p, q)
           /\ run[p] = [mode |-> "convert", dry |-> FALSE]
           /\ run[q].mode = "convert"
           /\ Mixed(fs0[b])
           /\ fs[b].out # NoFile
           /\ fs[b].out.by = runid[p]) =>
             /\ fs[b].m4a = fs0[b].m4a
             /\ \A e \in fs[b].bk : e[1] # "m4a"
             /\ idx[q] > b => res[q][b] = "skip_has_m4b"
             /\ idx[q] = b => pc[q] \notin ToolSteps

\* C40: one submit of a step form by the user leads to at most one call of
\* form.submit() by the guards, that is to at most one post of the form.
C40_OnePostPerSubmit == ui.flow.posts <= 1

====
